---- MODULE Spec2Model ----
(***************************************************************************)
(* The request build-and-execution pipeline of slumber (src/src/http.rs):  *)
(* RequestSeed -> build -> RequestTicket -> send -> Exchange, with the two *)
(* failure exits RequestBuildError and RequestError, and the two previews  *)
(* build_url and build_body.                                               *)
(*                                                                         *)
(* One behaviour follows one seed through the pipeline.  Every template    *)
(* render is a step of its own: the renders of one build are joined by     *)
(* try_join!/try_join_all, so they complete in any order and the first     *)
(* failure ends the build while the others are still pending.              *)
(*                                                                         *)
(* Option<T> is a sequence: <<>> is None, <<x>> is Some(x).                *)
(* Rendered text is a sequence of bytes; a URL string is a TLA+ string.    *)
(***************************************************************************)
EXTENDS Integers, Sequences, FiniteSets, TLC

VARIABLES
    engine,       \* HttpEngine: [danger_hostnames], fixed at construction
    now,          \* the clock read by Utc::now()
    pc,           \* position of the operation
    op,           \* which operation consumed the seed: build / build_url / build_body
    seed,         \* Option<RequestSeed>
    ctx,          \* the TemplateContext handed to the operation: [selected_profile]
    rendered,     \* template fields handed to the render contract so far
    routed,       \* Option<client>: what get_client returned to build / build_url
    buildResult,  \* Option<Result<..., RequestBuildError>> returned by build*
    local,        \* locals of RequestTicket::send: start_time, response, end_time, exchange
    sendResult,   \* Option<Result<Exchange, RequestError>> returned by send
    netLog,       \* requests handed to Client::execute, in order
    dbLog,        \* calls of insert_exchange, in order: [exchange, ok]
    \* trim_bytes on its own
    trimPredicate, \* the predicate f handed to trim_bytes
    trimInput,     \* the vector before the first call
    trimResults,   \* the vector after each call of trim_bytes on it, in order
    \* several requests on one engine
    tasks,         \* per request: its seed, context, position, renders and results
    \* the StateCell of a ResponseBodyView
    cell,          \* StateCell::state: Option<(K, V)>
    cellRefs,      \* Refs into the cell that have not been dropped
    cellInits,     \* how many times the init closure has run
    cellUpdated,   \* whether get_or_update has been called on the cell
    cellCall,      \* the last call on the cell: what it was given, found and returned
    \* a ResponseBodyView around the cell
    viewModal,     \* whether the actions modal of the view is open
    viewDrawn,     \* Option<RequestId>: the request id of the props drawn last
    viewMessages,  \* the messages handed to ViewContext::send_message, in order
    \* the ProfilePane, its modal and the event queue
    selected_profile, \* ProfilePane::selected_profile: Option<ProfileId>
    paneModal,        \* whether the ProfileListModal is open
    eventQueue,       \* the events pushed on the EventQueue and not yet handled
    paneUpdate,       \* the last call of ProfilePane::update: its event and what it did
    \* build_file_from_lines on its own
    fileLines,        \* the Vec<Line> handed to build_file_from_lines
    fileSections      \* Option<Vec<JetbrainsRequest>>: the sections it returned

\* The request pipeline.
pipelineVars == <<engine, now, pc, op, seed, ctx, rendered, routed, buildResult,
                  local, sendResult, netLog, dbLog>>
trimVars == <<trimPredicate, trimInput, trimResults>>
\* What no step of the request pipeline touches.
cellVars == <<cell, cellRefs, cellInits, cellUpdated, cellCall>>
viewVars == <<viewModal, viewDrawn, viewMessages>>
paneVars == <<selected_profile, paneModal, eventQueue, paneUpdate>>
fileVars == <<fileLines, fileSections>>
others == <<trimVars, tasks, cellVars, viewVars, paneVars, fileVars>>

vars == <<pipelineVars, others>>

-----------------------------------------------------------------------------
(* Bounds *)

\* In how many places the seed, the template context and the engine
\* configuration of a behaviour may differ from the fixture (the default
\* recipe, no disabled field, the default profile, the default hostnames):
\* each query parameter, header, authentication template, body, disabled
\* name, and each replaced URL, identity, request id, profile or hostname
\* set counts one.
MaxDeviations == 3
\* Last instant of the clock.
MaxTime == 1
\* How many requests are built and sent concurrently on one engine.
MaxTasks == 2
\* How many values the init closures of a StateCell create.
MaxInits == 4
\* How many Refs into a StateCell a caller holds at once.
MaxRefs == 2
\* How many messages a view sends.
MaxMessages == 2
\* How many events wait on the EventQueue.
MaxQueue == 3
\* How many lines are handed to build_file_from_lines.
MaxLines == 3
\* Longest vector handed to trim_bytes, and how often it is trimmed.
MaxLen == 4
MaxTrims == 2

-----------------------------------------------------------------------------
(* Values *)

None == <<>>
Some(x) == <<x>>

LF == 10
CR == 13

\* A template is given by what the render contract makes of it under the
\* template context: ok = FALSE is a render error.
FailBytes == [ok |-> FALSE, out |-> <<>>]
OkBytes(b) == [ok |-> TRUE, out |-> b]

ValueTemplates == {OkBytes(<<97>>), FailBytes}
\* plain, newline at both edges, interior newline, only newlines, render error
HeaderValueTemplates ==
    {OkBytes(<<97>>), OkBytes(<<LF, 97, CR>>), OkBytes(<<97, LF, 97>>),
     OkBytes(<<LF>>), FailBytes}
\* plain token, token with a line break, render error
TokenTemplates == {OkBytes(<<116>>), OkBytes(<<116, LF>>), FailBytes}
BodyTemplates == {OkBytes(<<123, 125>>), FailBytes}

DefaultUrl == [ok |-> TRUE, out |-> "http://h1/x"]
UrlTemplates ==
    {DefaultUrl,
     [ok |-> TRUE, out |-> "http://h2/x?k1=b"],
     [ok |-> TRUE, out |-> "http://H1/x"],
     [ok |-> TRUE, out |-> "http://a.h1/x"],
     [ok |-> TRUE, out |-> "file:///x"],
     [ok |-> TRUE, out |-> "not a url"],
     [ok |-> FALSE, out |-> ""]}

DefaultProfile == Some("p1")
Profiles == {DefaultProfile, None}

DefaultRequestId == "req1"
RequestIds == {DefaultRequestId, "req2"}

DefaultHostnames == {"h1"}
\* Config::ignore_certificate_hosts is a list of strings the user writes.
DangerHostSets == {DefaultHostnames, {"h2", ""}, {"H1"}}

DefaultIdentity == [id |-> "rec1", method |-> "Get"]
Identities == {DefaultIdentity, [id |-> "rec2", method |-> "Post"]}

QueryEntries ==
    {[key |-> "k1", value |-> OkBytes(<<97>>)],
     [key |-> "k1", value |-> FailBytes],
     [key |-> "k2", value |-> OkBytes(<<98>>)]}

HeaderEntries ==
    {[name |-> "Accept", value |-> t] : t \in HeaderValueTemplates}
    \cup {[name |-> "Authorization", value |-> OkBytes(<<97>>)],
          [name |-> "bad name", value |-> OkBytes(<<97>>)]}

DisabledHeaderNames == {"Accept", "Authorization"}
DisabledQueryNames == {"k1"}

B(cond) == IF cond THEN 1 ELSE 0

Min(S) == CHOOSE x \in S : \A y \in S : x <= y
Max(S) == CHOOSE x \in S : \A y \in S : x >= y

SeqsUpTo(S, n) == UNION {[1..m -> S] : m \in 0..n}

\* Recipe.query and Recipe.headers are IndexMaps: ordered, keys unique.
Queries(n) ==
    {q \in SeqsUpTo(QueryEntries, n) :
        \A i, j \in 1..Len(q) : i # j => q[i].key # q[j].key}
HeaderLists(n) ==
    {h \in SeqsUpTo(HeaderEntries, n) :
        \A i, j \in 1..Len(h) : i # j => h[i].name # h[j].name}

\* Option<Authentication<Template>>
Basic(u, p) == [kind |-> "basic", username |-> Some(u), password |-> p, token |-> None]
Bearer(t) == [kind |-> "bearer", username |-> None, password |-> None, token |-> Some(t)]
AuthCost(a) ==
    IF a = None THEN 0
    ELSE Len(a[1].username) + Len(a[1].password) + Len(a[1].token)
Authentications(n) ==
    {a \in {None}
          \cup {Some(Bearer(t)) : t \in TokenTemplates}
          \cup {Some(Basic(u, p)) : u \in ValueTemplates,
                                   p \in {None} \cup {Some(t) : t \in ValueTemplates}} :
        AuthCost(a) <= n}
Bodies(n) == {None} \cup (IF n >= 1 THEN {Some(t) : t \in BodyTemplates} ELSE {})
\* BuildOptions as RecipeDisplay::build_options fills it: besides the
\* disabled names it carries the substituted authentication and the
\* substituted body, in rendered form.
AuthenticationOverrides ==
    {None,
     Some([kind |-> "bearer", username |-> <<>>, password |-> None, token |-> <<111>>]),
     Some([kind |-> "basic", username |-> <<111>>, password |-> None, token |-> <<>>])}
BodyOverrides == {None, Some(<<111>>)}

OptionsCost(o) ==
    Cardinality(o.disabled_headers) + Cardinality(o.disabled_query_parameters)
    + Len(o.authentication_override) + Len(o.body_override)
OptionSets(n) ==
    {o \in [disabled_headers : SUBSET DisabledHeaderNames,
            disabled_query_parameters : SUBSET DisabledQueryNames,
            authentication_override : AuthenticationOverrides,
            body_override : BodyOverrides] :
        OptionsCost(o) <= n}

\* Deviations of the parts of a behaviour from the fixture.
RecipeCost(r) ==
    B(r.url # DefaultUrl) + B([id |-> r.id, method |-> r.method] # DefaultIdentity)
    + Len(r.query) + Len(r.headers) + AuthCost(r.authentication) + Len(r.body)
SeedCost(s) ==
    B(s.id # DefaultRequestId) + RecipeCost(s.recipe) + OptionsCost(s.options)

-----------------------------------------------------------------------------
(* Library conversions the pipeline relies on *)

\* str::parse::<Url>(): the parsed URL, or a parse error.  host is
\* Url::host_str(), which the parser stores in lower case for http URLs; the
\* query is the list of pairs the string carries.
NoUrl == [base |-> "", host |-> None, query |-> <<>>]
ParseUrl(s) ==
    CASE s = "http://h1/x" ->
            [ok |-> TRUE, url |-> [base |-> "http://h1/x", host |-> Some("h1"), query |-> <<>>]]
      [] s = "http://h2/x?k1=b" ->
            [ok |-> TRUE, url |-> [base |-> "http://h2/x", host |-> Some("h2"),
                                   query |-> <<[key |-> "k1", value |-> <<98>>]>>]]
      [] s = "http://H1/x" ->
            [ok |-> TRUE, url |-> [base |-> "http://h1/x", host |-> Some("h1"), query |-> <<>>]]
      [] s = "http://a.h1/x" ->
            [ok |-> TRUE, url |-> [base |-> "http://a.h1/x", host |-> Some("a.h1"),
                                   query |-> <<>>]]
      [] s = "file:///x" ->
            [ok |-> TRUE, url |-> [base |-> "file:///x", host |-> None, query |-> <<>>]]
      [] OTHER -> [ok |-> FALSE, url |-> NoUrl]

\* HeaderName::try_from(&str): names are tokens, stored in lower case.
HeaderNameOk(h) == h \in {"Accept", "Authorization"}
HeaderNameOf(h) ==
    CASE h = "Accept" -> "accept"
      [] h = "Authorization" -> "authorization"
      [] OTHER -> ""

\* HeaderValue::try_from(Vec<u8>): visible bytes and tab only.
HeaderValueOk(bytes) ==
    \A i \in 1..Len(bytes) : (bytes[i] >= 32 /\ bytes[i] # 127) \/ bytes[i] = 9

\* base64 of the credentials, kept as a byte-wise code: it is injective and
\* its output holds only visible bytes, which is all the pipeline uses of it.
RECURSIVE Base64(_)
Base64(bytes) ==
    IF bytes = <<>> THEN <<>>
    ELSE <<65 + (Head(bytes) \div 16), 65 + (Head(bytes) % 16)>> \o Base64(Tail(bytes))

\* RequestBuilder::basic_auth / bearer_auth: the Authorization header value.
\* Mutant: without a password the credentials are the username alone.
BasicCredentialsNoColon(username, password) ==
    username \o (IF password = None THEN <<>> ELSE <<58>> \o password[1])

BasicCredentials(username, password) ==
    username \o <<58>> \o (IF password = None THEN <<>> ELSE password[1])
BasicAuthValue(username, password) ==
    <<66, 97, 115, 105, 99, 32>> \o Base64(BasicCredentials(username, password))
BearerAuthValue(token) == <<66, 101, 97, 114, 101, 114, 32>> \o token

\* impl From<Method> for reqwest::Method
MethodInto(method) ==
    CASE method = "Get" -> "GET"
      [] method = "Post" -> "POST"

-----------------------------------------------------------------------------
(* trim_bytes *)

\* The predicate render_header passes: |c| c == b'\n' || c == b'\r', as a
\* function of the byte.
IsLineBreak == [c \in 0..255 |-> c = LF \/ c = CR]

\* Mutant: the first loop looks at the first byte only.
TrimStartOne(bytes, f) ==
    IF bytes # <<>> /\ f[bytes[1]] /\ \E i \in 1..Len(bytes) : ~f[bytes[i]]
    THEN Tail(bytes) ELSE bytes

\* "Trim start": drain(0..i) at the first byte that does not match; a
\* sequence with no such byte is left as it is.
TrimStart(bytes, f) ==
    LET keep == {i \in 1..Len(bytes) : ~f[bytes[i]]}
    IN IF keep = {} THEN bytes ELSE SubSeq(bytes, Min(keep), Len(bytes))

\* Mutant: the second loop drains from i + 2.
TrimEndKeepsOne(bytes, f) ==
    LET keep == {i \in 1..Len(bytes) : ~f[bytes[i]]}
    IN IF keep = {} THEN bytes
       ELSE SubSeq(bytes, 1, IF Max(keep) < Len(bytes) THEN Max(keep) + 1 ELSE Len(bytes))

\* "Trim end": drain(i+1..) at the last byte that does not match.
TrimEnd(bytes, f) ==
    LET keep == {i \in 1..Len(bytes) : ~f[bytes[i]]}
    IN IF keep = {} THEN bytes ELSE SubSeq(bytes, 1, Max(keep))

trim_bytes(bytes, f) == TrimEnd(TrimStart(bytes, f), f)

\* The predicate of test_trim_bytes: |b| b == 0.
IsZero == [c \in 0..255 |-> c = 0]
TrimPredicates == {IsLineBreak, IsZero}
\* The bytes of the vectors tried: the two of test_trim_bytes and a line break.
TrimAlphabet == {0, 1, LF}

-----------------------------------------------------------------------------
(* Render steps of a recipe *)

Field(facet, idx) == [facet |-> facet, idx |-> idx]

\* The templates each render step hands to the render contract.
RenderUrlFields(recipe) == {Field("url", 0)}

\* Mutant: the filter on disabled_query_parameters is left out.
RenderQueryFieldsUnfiltered(recipe, options) ==
    {Field("query", i) : i \in 1..Len(recipe.query)}

RenderQueryFields(recipe, options) ==
    {Field("query", i) : i \in {j \in 1..Len(recipe.query) :
        recipe.query[j].key \notin options.disabled_query_parameters}}

\* Mutant: the filter on disabled_headers is left out.
RenderHeadersFieldsUnfiltered(recipe, options) ==
    {Field("header", i) : i \in 1..Len(recipe.headers)}

RenderHeadersFields(recipe, options) ==
    {Field("header", i) : i \in {j \in 1..Len(recipe.headers) :
        recipe.headers[j].name \notin options.disabled_headers}}

RenderAuthenticationFields(recipe) ==
    IF recipe.authentication = None THEN {}
    ELSE LET a == recipe.authentication[1]
         IN IF a.kind = "basic"
            THEN {Field("username", 0)}
                 \cup (IF a.password = None THEN {} ELSE {Field("password", 0)})
            ELSE {Field("token", 0)}

RenderBodyFields(recipe) ==
    IF recipe.body = None THEN {} ELSE {Field("body", 0)}

\* The template behind a field.
FieldTemplate(recipe, f) ==
    CASE f.facet = "url" -> recipe.url
      [] f.facet = "query" -> recipe.query[f.idx].value
      [] f.facet = "header" -> recipe.headers[f.idx].value
      [] f.facet = "username" -> recipe.authentication[1].username[1]
      [] f.facet = "password" -> recipe.authentication[1].password[1]
      [] f.facet = "token" -> recipe.authentication[1].token[1]
      [] f.facet = "body" -> recipe.body[1]

\* The error, if any, with which the future of a field ends: the context
\* message of the failing step and the name it carries.
Cause(context, name) == [context |-> context, name |-> name]

RenderUrlError(recipe) ==
    IF ~recipe.url.ok THEN Some(Cause("Error rendering URL", ""))
    ELSE IF ~ParseUrl(recipe.url.out).ok THEN Some(Cause("Invalid URL", recipe.url.out))
    ELSE None

RenderQueryError(recipe, i) ==
    IF ~recipe.query[i].value.ok
    THEN Some(Cause("Error rendering query parameter", recipe.query[i].key))
    ELSE None

\* Mutant: only the render of the value can fail.
RenderHeaderErrorRenderOnly(recipe, i) ==
    IF ~recipe.headers[i].value.ok
    THEN Some(Cause("Error rendering header", recipe.headers[i].name))
    ELSE None

RenderHeaderError(recipe, i) ==
    LET header == recipe.headers[i].name
        t == recipe.headers[i].value
    IN IF ~t.ok THEN Some(Cause("Error rendering header", header))
       ELSE IF ~HeaderNameOk(header) THEN Some(Cause("Error encoding header name", header))
       ELSE IF ~HeaderValueOk(trim_bytes(t.out, IsLineBreak))
            THEN Some(Cause("Error encoding value for header", header))
       ELSE None

\* Mutant: the two halves of basic authentication carry each other's
\* description.
RenderAuthenticationErrorSwapped(recipe, f) ==
    IF FieldTemplate(recipe, f).ok THEN None
    ELSE Some(Cause(CASE f.facet = "username" -> "Error rendering password"
                      [] f.facet = "password" -> "Error rendering username"
                      [] f.facet = "token" -> "Error rendering bearer token", ""))

RenderAuthenticationError(recipe, f) ==
    IF FieldTemplate(recipe, f).ok THEN None
    ELSE Some(Cause(CASE f.facet = "username" -> "Error rendering username"
                      [] f.facet = "password" -> "Error rendering password"
                      [] f.facet = "token" -> "Error rendering bearer token", ""))

RenderBodyError(recipe) ==
    IF recipe.body[1].ok THEN None ELSE Some(Cause("Error rendering body", ""))

FieldError(recipe, f) ==
    CASE f.facet = "url" -> RenderUrlError(recipe)
      [] f.facet = "query" -> RenderQueryError(recipe, f.idx)
      [] f.facet = "header" -> RenderHeaderError(recipe, f.idx)
      [] f.facet = "body" -> RenderBodyError(recipe)
      [] OTHER -> RenderAuthenticationError(recipe, f)

\* What the render steps yield once every field has rendered.
\* Iterator::filter: the indexes of the kept entries, in declared order.
Filter(kept) ==
    [k \in 1..Cardinality(kept) |->
        CHOOSE i \in kept : Cardinality({j \in kept : j < i}) = k - 1]

render_url(recipe) == ParseUrl(recipe.url.out).url

\* Mutant: the rendered pairs are collected in reverse order.
render_queryReversed(recipe, options) ==
    LET kept == Filter({i \in 1..Len(recipe.query) :
                   recipe.query[i].key \notin options.disabled_query_parameters})
        n == Len(kept)
    IN [k \in 1..n |-> [key |-> recipe.query[kept[n + 1 - k]].key,
                        value |-> recipe.query[kept[n + 1 - k]].value.out]]

render_query(recipe, options) ==
    LET kept == Filter({i \in 1..Len(recipe.query) :
                   recipe.query[i].key \notin options.disabled_query_parameters})
    IN [k \in DOMAIN kept |-> [key |-> recipe.query[kept[k]].key,
                               value |-> recipe.query[kept[k]].value.out]]

\* Mutant: the rendered value is encoded as it is.
render_headerUntrimmed(e) ==
    [name |-> HeaderNameOf(e.name), value |-> e.value.out]

render_header(e) ==
    [name |-> HeaderNameOf(e.name), value |-> trim_bytes(e.value.out, IsLineBreak)]

render_headers(recipe, options) ==
    LET kept == Filter({i \in 1..Len(recipe.headers) :
                   recipe.headers[i].name \notin options.disabled_headers})
    IN [k \in DOMAIN kept |-> render_header(recipe.headers[kept[k]])]

render_authentication(recipe) ==
    IF recipe.authentication = None THEN None
    ELSE LET a == recipe.authentication[1]
         IN IF a.kind = "basic"
            THEN Some([kind |-> "basic",
                       username |-> a.username[1].out,
                       password |-> IF a.password = None THEN None
                                    ELSE Some(a.password[1].out),
                       token |-> <<>>])
            ELSE Some([kind |-> "bearer", username |-> <<>>, password |-> None,
                       token |-> a.token[1].out])

render_body(recipe) ==
    IF recipe.body = None THEN None ELSE Some(recipe.body[1].out)

-----------------------------------------------------------------------------
(* HttpEngine *)

\* Mutant: the hostnames are compared without regard to case.
get_clientIgnoreCase(eng, url) ==
    LET host == IF url.host = None THEN "" ELSE url.host[1]
        lower(h) == IF h = "H1" THEN "h1" ELSE h
    IN IF host \in {lower(h) : h \in eng.danger_hostnames}
       THEN "danger_client" ELSE "client"

\* HttpEngine::get_client
get_client(eng, url) ==
    LET host == IF url.host = None THEN "" ELSE url.host[1]
    IN IF host \in eng.danger_hostnames THEN "danger_client" ELSE "client"

\* The Authorization header basic_auth / bearer_auth add to the builder.
AuthorizationValue(authentication) ==
    IF authentication[1].kind = "basic"
    THEN BasicAuthValue(authentication[1].username, authentication[1].password)
    ELSE BearerAuthValue(authentication[1].token)

\* The authentication and the body that go into the request: the override
\* of BuildOptions where there is one, else what the recipe's render step
\* has yielded.
AppliedAuthentication(s) ==
    IF s.options.authentication_override # None
    THEN s.options.authentication_override
    ELSE render_authentication(s.recipe)

AppliedBody(s) ==
    IF s.options.body_override # None
    THEN s.options.body_override
    ELSE render_body(s.recipe)

\* Mutant: the authentication is not put on the builder.
BuildRequestNoAuthentication(recipe, url, query, headers, authentication, body) ==
    [error |-> IF url.host = None
               THEN Some(Cause("builder error", "URL scheme is not allowed"))
               ELSE None,
     request |-> [method |-> MethodInto(recipe.method),
                  url |-> [url EXCEPT !.query = @ \o query],
                  headers |-> headers,
                  body |-> body]]

\* Mutant: the body is not put on the builder.
BuildRequestNoBody(recipe, url, query, headers, authentication, body) ==
    LET authHeaders ==
            IF authentication = None THEN <<>>
            ELSE <<[name |-> "authorization",
                    value |-> AuthorizationValue(authentication)]>>
    IN [error |-> IF url.host = None
                  THEN Some(Cause("builder error", "URL scheme is not allowed"))
                  ELSE IF authentication # None
                          /\ ~HeaderValueOk(AuthorizationValue(authentication))
                  THEN Some(Cause("builder error", "failed to parse header value"))
                  ELSE None,
        request |-> [method |-> MethodInto(recipe.method),
                     url |-> [url EXCEPT !.query = @ \o query],
                     headers |-> headers \o authHeaders,
                     body |-> None]]

\* client.request(method, url).query(..).headers(..) .. .build(): the
\* reqwest request, or the builder's error (a URL without a host, an
\* Authorization value that is no header value).
BuildRequest(recipe, url, query, headers, authentication, body) ==
    LET authHeaders ==
            IF authentication = None THEN <<>>
            ELSE <<[name |-> "authorization",
                    value |-> AuthorizationValue(authentication)]>>
        error ==
            IF url.host = None THEN Some(Cause("builder error", "URL scheme is not allowed"))
            ELSE IF authentication # None /\ ~HeaderValueOk(AuthorizationValue(authentication))
                 THEN Some(Cause("builder error", "failed to parse header value"))
            ELSE None
    IN [error |-> error,
        request |-> [method |-> MethodInto(recipe.method),
                     url |-> [url EXCEPT !.query = @ \o query],
                     headers |-> headers \o authHeaders,
                     body |-> body]]

\* Mutant: the record keeps the rendered headers, without the header the
\* builder made of the authentication.
RequestRecordNewRenderedHeaders(s, profile_id, request) ==
    [id |-> s.id,
     profile_id |-> profile_id,
     recipe_id |-> s.recipe.id,
     method |-> request.method,
     url |-> request.url,
     headers |-> SelectSeq(request.headers, LAMBDA h : h.name # "authorization"),
     body |-> request.body]

\* RequestRecord::new(seed, profile_id, &request)
RequestRecordNew(s, profile_id, request) ==
    [id |-> s.id,
     profile_id |-> profile_id,
     recipe_id |-> s.recipe.id,
     method |-> request.method,
     url |-> request.url,
     headers |-> request.headers,
     body |-> request.body]

\* RequestBuildError::new(error, &seed, profile_id)
RequestBuildErrorNew(error, s, profile_id) ==
    [error |-> error, id |-> s.id, recipe_id |-> s.recipe.id, profile_id |-> profile_id]

\* The templates an operation renders.
BuildFields(s) ==
    RenderUrlFields(s.recipe) \cup RenderQueryFields(s.recipe, s.options)
    \cup RenderHeadersFields(s.recipe, s.options)
    \cup RenderAuthenticationFields(s.recipe) \cup RenderBodyFields(s.recipe)

\* Mutant: build_url renders all five facets, as build does.
BuildUrlFieldsAll(s) == BuildFields(s)

BuildUrlFields(s) ==
    RenderUrlFields(s.recipe) \cup RenderQueryFields(s.recipe, s.options)

\* Mutant: build_body renders the URL as well.
BuildBodyFieldsWithUrl(s) == RenderUrlFields(s.recipe) \cup RenderBodyFields(s.recipe)

BuildBodyFields(s) == RenderBodyFields(s.recipe)

Fields(o, s) ==
    CASE o = "build" -> BuildFields(s)
      [] o = "build_url" -> BuildUrlFields(s)
      [] o = "build_body" -> BuildBodyFields(s)

Ok(kind, value) == [ok |-> TRUE, kind |-> kind, value |-> value]
Err(kind, value) == [ok |-> FALSE, kind |-> kind, value |-> value]

\* Mutant: the result of builder.build() is taken without `?`.
BuildJoinedUnchecked(eng, s, profile_id) ==
    LET url == render_url(s.recipe)
        built == BuildRequest(s.recipe, url, render_query(s.recipe, s.options),
                              render_headers(s.recipe, s.options),
                              AppliedAuthentication(s), AppliedBody(s))
    IN Ok("ticket", [record |-> RequestRecordNew(s, profile_id, built.request),
                     client |-> get_client(eng, url),
                     request |-> built.request])

\* HttpEngine::build once try_join! has yielded all five facets.
BuildJoined(eng, s, profile_id) ==
    LET url == render_url(s.recipe)
        client == get_client(eng, url)
        built == BuildRequest(s.recipe, url, render_query(s.recipe, s.options),
                              render_headers(s.recipe, s.options),
                              AppliedAuthentication(s), AppliedBody(s))
    IN IF built.error # None
       THEN Err("build_error", RequestBuildErrorNew(built.error[1], s, profile_id))
       ELSE Ok("ticket", [record |-> RequestRecordNew(s, profile_id, built.request),
                          client |-> client,
                          request |-> built.request])

\* HttpEngine::build_url once try_join! has yielded the URL and the query.
BuildUrlJoined(eng, s, profile_id) ==
    LET url == render_url(s.recipe)
        built == BuildRequest(s.recipe, url, render_query(s.recipe, s.options),
                              <<>>, None, None)
    IN IF built.error # None
       THEN Err("build_error", RequestBuildErrorNew(built.error[1], s, profile_id))
       ELSE Ok("url", built.request.url)

\* HttpEngine::build_body once render_body has returned.
BuildBodyJoined(eng, s, profile_id) == Ok("body", AppliedBody(s))

\* `let client = self.get_client(&url)`: the client build and build_url pick
\* once the join has yielded the URL, before the request is constructed.
Routed(o, eng, s) ==
    IF o \in {"build", "build_url"}
    THEN Some(get_client(eng, render_url(s.recipe)))
    ELSE None

Joined(o, eng, s, profile_id) ==
    CASE o = "build" -> BuildJoined(eng, s, profile_id)
      [] o = "build_url" -> BuildUrlJoined(eng, s, profile_id)
      [] o = "build_body" -> BuildBodyJoined(eng, s, profile_id)

-----------------------------------------------------------------------------
(* State machine *)

NoLocal == [start_time |-> None, response |-> None, end_time |-> None, exchange |-> None]

Responses ==
    {[status |-> 200, headers |-> <<>>, body |-> <<104, 105>>],
     [status |-> 404, headers |-> <<>>, body |-> <<>>]}

Deviations ==
    B(engine.danger_hostnames # DefaultHostnames)
    + (IF seed = None THEN 0 ELSE SeedCost(seed[1]))
    + (IF ctx = None THEN 0 ELSE B(ctx[1].selected_profile # DefaultProfile))

-----------------------------------------------------------------------------
(* StateCell<K, V>: a RefCell<Option<(K, V)>>. *)

\* ResponseBodyView keys its state by the id of the request it shows.
CellKeys == RequestIds
\* The text of the query box of the body, which the child edits.
BodyQueries == {"", "q"}

NoCall ==
    [op |-> "none", key |-> None, refs |-> 0, before |-> None, after |-> None,
     ran_init |-> FALSE, panicked |-> FALSE, returned |-> None]

\* StateCell::default(): nothing stored, nothing borrowed.
CellIdle ==
    /\ cell = None
    /\ cellRefs = 0
    /\ cellInits = 0
    /\ cellUpdated = FALSE
    /\ cellCall = NoCall

\* ResponseBodyView::default(): no modal, nothing drawn, nothing sent.
ViewIdle ==
    /\ viewModal = FALSE
    /\ viewDrawn = None
    /\ viewMessages = <<>>

\* ProfilePane::new with nothing persisted: no profile selected, no modal,
\* no event waiting.
NoUpdate ==
    [event |-> [kind |-> "none"], update |-> "none", before |-> None, after |-> None,
     pushed |-> <<>>]
PaneIdle ==
    /\ selected_profile = None
    /\ paneModal = FALSE
    /\ eventQueue = <<>>
    /\ paneUpdate = NoUpdate

\* build_file_from_lines has not been called.
FileIdle ==
    /\ fileLines = <<>>
    /\ fileSections = None

\* The closure draw hands to get_or_update: a State of the request, with a
\* body made anew.
InitState(key, n) == [request_id |-> key, body |-> [created |-> n, query |-> ""]]

\* RefCell::borrow: a shared borrow is refused only while a RefMut is out,
\* and none is out between calls, get_or_update dropping its own before it
\* returns.
borrow(refs) == TRUE

\* Mutant: the key is compared under a shared borrow, and the exclusive one
\* is taken only to replace a stale state.
get_or_updateBorrowsWhenStale(c, refs, key, n) ==
    LET stale == c = None \/ c[1].key # key
        after == IF stale THEN Some([key |-> key, value |-> InitState(key, n)])
                 ELSE c
    IN IF stale /\ refs # 0
       THEN [panicked |-> TRUE, cell |-> c, ran_init |-> FALSE, returned |-> None]
       ELSE [panicked |-> FALSE, cell |-> after, ran_init |-> stale,
             returned |-> Some(after[1].value)]

\* Mutant: only an uninitialized cell is stale.
get_or_updateOnlyUninitialized(c, refs, key, n) ==
    IF refs # 0
    THEN [panicked |-> TRUE, cell |-> c, ran_init |-> FALSE, returned |-> None]
    ELSE LET stale == c = None
             after == IF stale THEN Some([key |-> key, value |-> InitState(key, n)])
                      ELSE c
         IN [panicked |-> FALSE, cell |-> after, ran_init |-> stale,
             returned |-> Some(after[1].value)]

\* StateCell::get_or_update(&self, key, init), init making its n-th value.
\* borrow_mut panics while a Ref is out; otherwise the state is replaced iff
\* it is None or holds another key, and a Ref to the stored value returned.
get_or_update(c, refs, key, n) ==
    IF refs # 0
    THEN [panicked |-> TRUE, cell |-> c, ran_init |-> FALSE, returned |-> None]
    ELSE LET stale == c = None \/ c[1].key # key
             after == IF stale THEN Some([key |-> key, value |-> InitState(key, n)])
                      ELSE c
         IN [panicked |-> FALSE, cell |-> after, ran_init |-> stale,
             returned |-> Some(after[1].value)]

\* StateCell::get_key(&self)
get_key(c) == IF c = None THEN None ELSE Some(c[1].key)

\* Mutant: a value whose query is empty is filtered out.
getUnlessEmpty(c) ==
    IF c = None \/ c[1].value.body.query = "" THEN None ELSE Some(c[1].value)

\* StateCell::get(&self)
get(c) == IF c = None THEN None ELSE Some(c[1].value)

\* StateCell::get_mut(&mut self): the value, which the caller may change
\* where it stands.
get_mut(c) == IF c = None THEN None ELSE Some(c[1].value)

Init ==
    /\ engine \in {[danger_hostnames |-> d] : d \in DangerHostSets}
    /\ now = 0
    /\ pc = "start"
    /\ op = "none"
    /\ seed = None
    /\ ctx = None
    /\ rendered = {}
    /\ routed = None
    /\ buildResult = None
    /\ local = NoLocal
    /\ sendResult = None
    /\ netLog = <<>>
    /\ dbLog = <<>>
    /\ trimPredicate = IsLineBreak
    /\ trimInput = <<>>
    /\ trimResults = <<>>
    /\ tasks = <<>>
    /\ CellIdle
    /\ ViewIdle
    /\ PaneIdle
    /\ FileIdle

\* RequestSeed::new(recipe, options): a seed with a fresh id.
NewSeed ==
    /\ pc = "start"
    /\ \E rid \in RequestIds, ident \in Identities, u \in UrlTemplates :
        LET n0 == MaxDeviations - B(engine.danger_hostnames # DefaultHostnames)
                  - B(rid # DefaultRequestId) - B(ident # DefaultIdentity)
                  - B(u # DefaultUrl)
        IN /\ n0 >= 0
           /\ \E q \in Queries(n0) :
              \E h \in HeaderLists(n0 - Len(q)) :
              \E a \in Authentications(n0 - Len(q) - Len(h)) :
              \E b \in Bodies(n0 - Len(q) - Len(h) - AuthCost(a)) :
              \E o \in OptionSets(n0 - Len(q) - Len(h) - AuthCost(a) - Len(b)) :
                 seed' = Some([id |-> rid,
                               recipe |-> [id |-> ident.id, method |-> ident.method,
                                           url |-> u, query |-> q, headers |-> h,
                                           authentication |-> a, body |-> b],
                               options |-> o])
    /\ pc' = "seed"
    /\ UNCHANGED <<others, routed, engine, now, op, ctx, rendered, buildResult, local, sendResult,
                   netLog, dbLog>>

\* The caller hands the seed to build, build_url or build_body, which
\* consumes it; the futures of its render steps are created.
Start(o, profile_id) ==
    /\ pc = "seed"
    /\ Deviations + B(profile_id # DefaultProfile) <= MaxDeviations
    /\ op' = o
    /\ ctx' = Some([selected_profile |-> profile_id])
    /\ IF Fields(o, seed[1]) = {}
       THEN /\ buildResult' = Some(Joined(o, engine, seed[1], profile_id))
            /\ pc' = buildResult'[1].kind
       ELSE /\ pc' = "building"
            /\ UNCHANGED buildResult
    /\ UNCHANGED <<others, routed, engine, now, seed, rendered, local, sendResult, netLog, dbLog>>

Build == \E profile_id \in Profiles : Start("build", profile_id)
BuildUrl == \E profile_id \in Profiles : Start("build_url", profile_id)
BuildBody == \E profile_id \in Profiles : Start("build_body", profile_id)

Pending == Fields(op, seed[1]) \ rendered

\* Mutant: the build error is made without the selected profile.
RenderFailNoProfile ==
    /\ pc = "building"
    /\ \E f \in Pending :
        /\ FieldError(seed[1].recipe, f) # None
        /\ rendered' = rendered \cup {f}
        /\ buildResult' = Some(Err("build_error",
               RequestBuildErrorNew(FieldError(seed[1].recipe, f)[1], seed[1], None)))
    /\ pc' = "build_error"
    /\ UNCHANGED <<others, routed, engine, now, op, seed, ctx, local, sendResult, netLog, dbLog>>

\* Mutant: the error reported is that of the first failing field in the
\* order of the join's branches, whichever failure came first.
RenderFailFirstDeclared ==
    /\ pc = "building"
    /\ \E f \in Pending :
        /\ FieldError(seed[1].recipe, f) # None
        /\ rendered' = rendered \cup {f}
    /\ LET failing == {g \in Fields(op, seed[1]) : FieldError(seed[1].recipe, g) # None}
           order(g) == CASE g.facet = "url" -> 0
                         [] g.facet = "query" -> 10 + g.idx
                         [] g.facet = "header" -> 20 + g.idx
                         [] g.facet = "username" -> 30
                         [] g.facet = "password" -> 31
                         [] g.facet = "token" -> 32
                         [] g.facet = "body" -> 40
           first == CHOOSE g \in failing : \A h \in failing : order(g) <= order(h)
       IN buildResult' = Some(Err("build_error",
              RequestBuildErrorNew(FieldError(seed[1].recipe, first)[1], seed[1],
                                   ctx[1].selected_profile)))
    /\ pc' = "build_error"
    /\ UNCHANGED <<others, routed, engine, now, op, seed, ctx, local, sendResult, netLog, dbLog>>

\* Mutant: the join waits for every branch before it yields an error.
RenderFailWaits ==
    /\ pc = "building"
    /\ \E f \in Pending :
        /\ FieldError(seed[1].recipe, f) # None
        /\ rendered' = rendered \cup {f}
        /\ IF Pending = {f}
           THEN /\ buildResult' = Some(Err("build_error",
                       RequestBuildErrorNew(FieldError(seed[1].recipe, f)[1], seed[1],
                                            ctx[1].selected_profile)))
                /\ pc' = "build_error"
           ELSE UNCHANGED <<buildResult, pc>>
    /\ UNCHANGED <<others, routed, engine, now, op, seed, ctx, local, sendResult, netLog, dbLog>>

\* The render of one field fails (or what it rendered does not parse or
\* encode): try_join_all / try_join! return that error at once, and the
\* operation maps it into a RequestBuildError.
RenderFail ==
    /\ pc = "building"
    /\ \E f \in Pending :
        /\ FieldError(seed[1].recipe, f) # None
        /\ rendered' = rendered \cup {f}
        /\ buildResult' = Some(Err("build_error",
               RequestBuildErrorNew(FieldError(seed[1].recipe, f)[1], seed[1],
                                    ctx[1].selected_profile)))
    /\ pc' = "build_error"
    /\ UNCHANGED <<others, routed, engine, now, op, seed, ctx, local, sendResult, netLog, dbLog>>

\* The render of one field succeeds while others are still pending.
RenderOk ==
    /\ pc = "building"
    /\ \E f \in Pending :
        /\ FieldError(seed[1].recipe, f) = None
        /\ Pending # {f}
        /\ rendered' = rendered \cup {f}
    /\ UNCHANGED <<others, routed, engine, now, pc, op, seed, ctx, buildResult, local, sendResult,
                   netLog, dbLog>>

\* Mutant: build sends the request it has built.
RenderLastExecutes ==
    /\ pc = "building"
    /\ \E f \in Pending :
        /\ FieldError(seed[1].recipe, f) = None
        /\ Pending = {f}
        /\ rendered' = rendered \cup {f}
    /\ buildResult' = Some(Joined(op, engine, seed[1], ctx[1].selected_profile))
    /\ pc' = buildResult'[1].kind
    /\ netLog' = IF buildResult'[1].kind = "ticket"
                 THEN Append(netLog, [client |-> buildResult'[1].value.client,
                                      request |-> buildResult'[1].value.request])
                 ELSE netLog
    /\ routed' = Routed(op, engine, seed[1])
    /\ UNCHANGED <<others, engine, now, op, seed, ctx, local, sendResult, dbLog>>

\* The last pending render succeeds: the join yields and the operation runs
\* to its return without suspending again.
RenderLast ==
    /\ pc = "building"
    /\ \E f \in Pending :
        /\ FieldError(seed[1].recipe, f) = None
        /\ Pending = {f}
        /\ rendered' = rendered \cup {f}
    /\ buildResult' = Some(Joined(op, engine, seed[1], ctx[1].selected_profile))
    /\ pc' = buildResult'[1].kind
    /\ routed' = Routed(op, engine, seed[1])
    /\ UNCHANGED <<others, engine, now, op, seed, ctx, local, sendResult, netLog, dbLog>>

Ticket == buildResult[1].value

\* Mutant: start_time is the time the ticket was made, which is the time the
\* clock starts from.
SendStartAtConstruction ==
    /\ pc = "ticket"
    /\ local' = [local EXCEPT !.start_time = Some(0)]
    /\ netLog' = Append(netLog, [client |-> Ticket.client, request |-> Ticket.request])
    /\ pc' = "executing"
    /\ UNCHANGED <<others, routed, engine, now, op, seed, ctx, rendered, buildResult, sendResult, dbLog>>

\* RequestTicket::send starts: start_time is read and the request is handed
\* to the client the ticket is bound to.
SendStart ==
    /\ pc = "ticket"
    /\ local' = [local EXCEPT !.start_time = Some(now)]
    /\ netLog' = Append(netLog, [client |-> Ticket.client, request |-> Ticket.request])
    /\ pc' = "executing"
    /\ UNCHANGED <<others, routed, engine, now, op, seed, ctx, rendered, buildResult, sendResult, dbLog>>

\* Mutant: the error carries the start time in both places.
RequestErrorNewStartOnly(record, start_time, end_time, error) ==
    [request |-> record, start_time |-> start_time, end_time |-> start_time,
     error |-> error]

\* The Err arm of send: the record, both timestamps and the cause.
RequestErrorNew(record, start_time, end_time, error) ==
    [request |-> record, start_time |-> start_time, end_time |-> end_time,
     error |-> error]

SendFailed(error) ==
    /\ local' = [local EXCEPT !.end_time = Some(now)]
    /\ sendResult' = Some(Err("request_error",
           RequestErrorNew(Ticket.record, local.start_time[1], now, error)))
    /\ pc' = "request_error"
    /\ UNCHANGED <<others, routed, engine, now, op, seed, ctx, rendered, buildResult, netLog, dbLog>>

\* Mutant: a failed execute is tried once more.
ExecuteFailRetries ==
    /\ pc = "executing"
    /\ IF Len(netLog) < 2
       THEN /\ netLog' = Append(netLog, [client |-> Ticket.client,
                                         request |-> Ticket.request])
            /\ UNCHANGED <<others, routed, engine, now, pc, op, seed, ctx, rendered,
                           buildResult, local, sendResult, dbLog>>
       ELSE SendFailed("execute")

\* Client::execute fails.
ExecuteFail ==
    /\ pc = "executing"
    /\ SendFailed("execute")

\* Client::execute yields a response whose content is still to be loaded.
ExecuteOk ==
    /\ pc = "executing"
    /\ \E r \in Responses : local' = [local EXCEPT !.response = Some(r)]
    /\ pc' = "loading"
    /\ UNCHANGED <<others, routed, engine, now, op, seed, ctx, rendered, buildResult, sendResult,
                   netLog, dbLog>>

\* Mutant: what has arrived of the response is stored before the error is
\* returned.
LoadFailStored ==
    /\ pc = "loading"
    /\ local' = [local EXCEPT !.end_time = Some(now)]
    /\ sendResult' = Some(Err("request_error",
           RequestErrorNew(Ticket.record, local.start_time[1], now, "body")))
    /\ dbLog' = Append(dbLog,
           [exchange |-> [id |-> Ticket.record.id, request |-> Ticket.record,
                          response |-> [status |-> local.response[1].status,
                                        headers |-> local.response[1].headers,
                                        body |-> <<>>],
                          start_time |-> local.start_time[1], end_time |-> now],
            ok |-> TRUE])
    /\ pc' = "request_error"
    /\ UNCHANGED <<others, routed, engine, now, op, seed, ctx, rendered, buildResult, netLog>>

\* ResponseRecord::from_response fails: the content does not load.
LoadFail ==
    /\ pc = "loading"
    /\ SendFailed("body")

\* ResponseRecord::from_response
ResponseRecordOf(response) ==
    [status |-> response.status, headers |-> response.headers, body |-> response.body]

\* Mutant: the Exchange gets an id of its own.
ExchangeNewFreshId(record, response, start_time, end_time) ==
    [id |-> CHOOSE x \in RequestIds : x # record.id, request |-> record,
     response |-> response, start_time |-> start_time, end_time |-> end_time]

\* The Exchange the Ok arm of send makes.
ExchangeNew(record, response, start_time, end_time) ==
    [id |-> record.id, request |-> record, response |-> response,
     start_time |-> start_time, end_time |-> end_time]

\* The content has loaded: end_time is read and the Exchange is made.
LoadOk ==
    /\ pc = "loading"
    /\ local' = [local EXCEPT
           !.end_time = Some(now),
           !.exchange = Some(ExchangeNew(Ticket.record,
                                         ResponseRecordOf(local.response[1]),
                                         local.start_time[1], now))]
    /\ pc' = "loaded"
    /\ UNCHANGED <<others, routed, engine, now, op, seed, ctx, rendered, buildResult, sendResult,
                   netLog, dbLog>>

\* Mutant: a storage error is propagated with `?`.
InsertExchangePropagates ==
    /\ pc = "loaded"
    /\ \E stored \in BOOLEAN :
        /\ dbLog' = Append(dbLog, [exchange |-> local.exchange[1], ok |-> stored])
        /\ IF stored
           THEN pc' = "inserted" /\ UNCHANGED sendResult
           ELSE /\ pc' = "request_error"
                /\ sendResult' = Some(Err("request_error",
                       [request |-> Ticket.record,
                        start_time |-> local.start_time[1],
                        end_time |-> local.end_time[1], error |-> "storage"]))
    /\ UNCHANGED <<others, routed, engine, now, op, seed, ctx, rendered, buildResult, local, netLog>>

\* Mutant: only the Exchange of a 200 response is stored.
InsertExchangeOnlyOk ==
    /\ pc = "loaded"
    /\ \E stored \in BOOLEAN :
        dbLog' = IF local.exchange[1].response.status = 200
                 THEN Append(dbLog, [exchange |-> local.exchange[1], ok |-> stored])
                 ELSE dbLog
    /\ pc' = "inserted"
    /\ UNCHANGED <<others, routed, engine, now, op, seed, ctx, rendered, buildResult, local,
                   sendResult, netLog>>

\* database.insert_exchange(&exchange), which succeeds or fails; the result
\* is dropped.
InsertExchange ==
    /\ pc = "loaded"
    /\ \E stored \in BOOLEAN :
        dbLog' = Append(dbLog, [exchange |-> local.exchange[1], ok |-> stored])
    /\ pc' = "inserted"
    /\ UNCHANGED <<others, routed, engine, now, op, seed, ctx, rendered, buildResult, local,
                   sendResult, netLog>>

\* Mutant: the ticket can be sent again once send has returned.
SendReturnKeepsTicket ==
    /\ pc = "inserted"
    /\ sendResult' = Some(Ok("exchange", local.exchange[1]))
    /\ pc' = "ticket"
    /\ UNCHANGED <<others, routed, engine, now, op, seed, ctx, rendered, buildResult, local, netLog,
                   dbLog>>

\* send returns Ok(exchange).
SendReturn ==
    /\ pc = "inserted"
    /\ sendResult' = Some(Ok("exchange", local.exchange[1]))
    /\ pc' = "exchange"
    /\ UNCHANGED <<others, routed, engine, now, op, seed, ctx, rendered, buildResult, local, netLog,
                   dbLog>>

\* The caller drops the future of build, build_url or build_body while it is
\* suspended in the join of its renders: nothing is returned.
AbandonBuild ==
    /\ pc = "building"
    /\ pc' = "abandoned"
    /\ UNCHANGED <<others, routed, engine, now, op, seed, ctx, rendered, buildResult,
                   local, sendResult, netLog, dbLog>>

\* Mutant: send can also be suspended, and dropped, once the response is
\* loaded and once the Exchange is stored.
AbandonSendAfterInsert ==
    /\ pc \in {"executing", "loading", "loaded", "inserted"}
    /\ pc' = "abandoned"
    /\ UNCHANGED <<others, routed, engine, now, op, seed, ctx, rendered, buildResult,
                   local, sendResult, netLog, dbLog>>

\* The caller drops the future of send while it is suspended in
\* Client::execute or in the load of the response's content: nothing is
\* returned (local keeps what the dropped future held at that moment).
AbandonSend ==
    /\ pc \in {"executing", "loading"}
    /\ pc' = "abandoned"
    /\ UNCHANGED <<others, routed, engine, now, op, seed, ctx, rendered, buildResult,
                   local, sendResult, netLog, dbLog>>

\* Utc::now() reads the system's wall clock, which is not monotonic: it is
\* set back when the system time is adjusted.  Only a step back between the
\* two reads of send can be seen, so only that one is modelled.
ClockSetBack ==
    /\ pc \in {"executing", "loading"}
    /\ now > 0
    /\ \E t \in 0..(now - 1) : now' = t
    /\ UNCHANGED <<others, routed, engine, pc, op, seed, ctx, rendered, buildResult, local,
                   sendResult, netLog, dbLog>>

\* Time passes.  Utc::now() is read by send alone, so the clock is let run
\* from the moment the ticket exists.
Tick ==
    /\ pc \in {"ticket", "executing", "loading", "loaded", "inserted"}
    /\ now < MaxTime
    /\ now' = now + 1
    /\ UNCHANGED <<others, routed, engine, pc, op, seed, ctx, rendered, buildResult, local,
                   sendResult, netLog, dbLog>>

Next ==
    \/ NewSeed
    \/ Build
    \/ BuildUrl
    \/ BuildBody
    \/ RenderFail
    \/ RenderOk
    \/ RenderLast
    \/ SendStart
    \/ ExecuteFail
    \/ ExecuteOk
    \/ LoadFail
    \/ LoadOk
    \/ InsertExchange
    \/ SendReturn
    \/ Tick
    \/ ClockSetBack
    \/ AbandonBuild
    \/ AbandonSend

Spec == Init /\ [][Next]_vars

-----------------------------------------------------------------------------
(* trim_bytes on its own: a vector and a predicate, trimmed in place *)

PipelineIdle ==
    /\ engine = [danger_hostnames |-> DefaultHostnames]
    /\ now = 0
    /\ pc = "start"
    /\ op = "none"
    /\ seed = None
    /\ ctx = None
    /\ rendered = {}
    /\ routed = None
    /\ buildResult = None
    /\ local = NoLocal
    /\ sendResult = None
    /\ netLog = <<>>
    /\ dbLog = <<>>

InitTrim ==
    /\ PipelineIdle
    /\ tasks = <<>>
    /\ CellIdle
    /\ ViewIdle
    /\ PaneIdle
    /\ FileIdle
    /\ trimPredicate \in TrimPredicates
    /\ trimInput \in SeqsUpTo(TrimAlphabet, MaxLen)
    /\ trimResults = <<>>

\* trim_bytes(&mut bytes, f): the vector is trimmed where it stands.
CallTrimBytes ==
    /\ Len(trimResults) < MaxTrims
    /\ LET bytes == IF trimResults = <<>> THEN trimInput
                    ELSE trimResults[Len(trimResults)]
       IN trimResults' = Append(trimResults, trim_bytes(bytes, trimPredicate))
    /\ UNCHANGED <<pipelineVars, tasks, cellVars, viewVars, paneVars, fileVars,
                   trimPredicate, trimInput>>

NextTrim == CallTrimBytes

SpecTrim == InitTrim /\ [][NextTrim]_vars

-----------------------------------------------------------------------------
(* Several requests built and sent concurrently on one engine.  Every task *)
(* owns its seed, its template context and its futures; the tasks share    *)
(* the engine (&self), the network and the database, and are interleaved   *)
(* at their suspension points.                                             *)

Tasks == 1..MaxTasks

PairRecipe(u, h, b) ==
    [id |-> "rec1", method |-> "Get", url |-> u, query |-> <<>>, headers |-> h,
     authentication |-> None, body |-> b]
NoOptions ==
    [disabled_headers |-> {}, disabled_query_parameters |-> {},
     authentication_override |-> None, body_override |-> None]
\* A recipe that builds, one for another host with a header to trim and a
\* body, one with two failing templates, and one whose URL has no host.
PairRecipes ==
    {PairRecipe(DefaultUrl, <<>>, None),
     PairRecipe([ok |-> TRUE, out |-> "http://h2/x?k1=b"],
                <<[name |-> "Accept", value |-> OkBytes(<<LF, 97, CR>>)]>>,
                Some(OkBytes(<<123, 125>>))),
     PairRecipe([ok |-> FALSE, out |-> ""], <<>>, Some(FailBytes)),
     PairRecipe([ok |-> TRUE, out |-> "file:///x"], <<>>, None)}

\* RequestSeed::new gives every seed an id of its own; every task has its
\* own template context.
PairSeed(t, recipe) == [id |-> <<"req", t>>, recipe |-> recipe, options |-> NoOptions]
PairProfile(t) == IF t % 2 = 1 THEN DefaultProfile ELSE None

NewTask(t, recipe) ==
    [pc |-> "seed", seed |-> PairSeed(t, recipe), profile |-> PairProfile(t),
     rendered |-> {}, buildResult |-> None, response |-> None, sendResult |-> None]

InitPair ==
    /\ engine \in {[danger_hostnames |-> d] : d \in {DefaultHostnames, {"h2", ""}}}
    /\ now = 0
    /\ pc = "start"
    /\ op = "none"
    /\ seed = None
    /\ ctx = None
    /\ rendered = {}
    /\ routed = None
    /\ buildResult = None
    /\ local = NoLocal
    /\ sendResult = None
    /\ netLog = <<>>
    /\ dbLog = <<>>
    /\ trimPredicate = IsLineBreak
    /\ trimInput = <<>>
    /\ trimResults = <<>>
    /\ tasks \in {[t \in Tasks |-> NewTask(t, r[t])] : r \in [Tasks -> PairRecipes]}
    /\ CellIdle
    /\ ViewIdle
    /\ PaneIdle
    /\ FileIdle

\* What a step of a task leaves alone besides the other tasks.
pairFrame == <<engine, now, pc, op, seed, ctx, rendered, routed, buildResult, local,
               sendResult, trimVars, cellVars, viewVars, paneVars, fileVars>>

\* HttpEngine::build is called with the seed of the task: its renders start.
PairBuild(t) ==
    /\ tasks[t].pc = "seed"
    /\ tasks' = [tasks EXCEPT ![t].pc = "building"]
    /\ UNCHANGED <<pairFrame, netLog, dbLog>>

\* Mutant: the template context is state of the engine, set by the build
\* that started last.
PairRenderSharedContext(t) ==
    /\ tasks[t].pc = "building"
    /\ LET k == tasks[t]
           last == CHOOSE u \in Tasks : \A v \in Tasks : v <= u
       IN \E f \in Fields("build", k.seed) \ k.rendered :
            LET error == FieldError(k.seed.recipe, f)
                result ==
                    IF error # None
                    THEN Some(Err("build_error",
                             RequestBuildErrorNew(error[1], k.seed, tasks[last].profile)))
                    ELSE IF Fields("build", k.seed) \ k.rendered = {f}
                    THEN Some(BuildJoined(engine, k.seed, tasks[last].profile))
                    ELSE None
            IN tasks' = [tasks EXCEPT
                   ![t].rendered = @ \cup {f},
                   ![t].buildResult = result,
                   ![t].pc = IF result = None THEN "building" ELSE result[1].kind]
    /\ UNCHANGED <<pairFrame, netLog, dbLog>>

\* One render of the task's build finishes: a failure ends the build with a
\* RequestBuildError, the last success ends it with what build makes of the
\* five facets.
PairRender(t) ==
    /\ tasks[t].pc = "building"
    /\ LET k == tasks[t]
       IN \E f \in Fields("build", k.seed) \ k.rendered :
            LET error == FieldError(k.seed.recipe, f)
                result ==
                    IF error # None
                    THEN Some(Err("build_error",
                             RequestBuildErrorNew(error[1], k.seed, k.profile)))
                    ELSE IF Fields("build", k.seed) \ k.rendered = {f}
                    THEN Some(BuildJoined(engine, k.seed, k.profile))
                    ELSE None
            IN tasks' = [tasks EXCEPT
                   ![t].rendered = @ \cup {f},
                   ![t].buildResult = result,
                   ![t].pc = IF result = None THEN "building" ELSE result[1].kind]
    /\ UNCHANGED <<pairFrame, netLog, dbLog>>

\* RequestTicket::send of the task's ticket: the request goes to the client.
PairSendStart(t) ==
    /\ tasks[t].pc = "ticket"
    /\ netLog' = Append(netLog, [client |-> tasks[t].buildResult[1].value.client,
                                 request |-> tasks[t].buildResult[1].value.request])
    /\ tasks' = [tasks EXCEPT ![t].pc = "executing"]
    /\ UNCHANGED <<pairFrame, dbLog>>

\* Client::execute returns: an error, which ends the send, or a response.
PairExecute(t) ==
    /\ tasks[t].pc = "executing"
    /\ \/ tasks' = [tasks EXCEPT
             ![t].pc = "request_error",
             ![t].sendResult = Some(Err("request_error",
                 RequestErrorNew(tasks[t].buildResult[1].value.record, now, now,
                                 "execute")))]
       \/ \E r \in Responses :
             tasks' = [tasks EXCEPT ![t].pc = "loading", ![t].response = Some(r)]
    /\ UNCHANGED <<pairFrame, netLog, dbLog>>

\* The content of the response fails to load.
PairLoadFail(t) ==
    /\ tasks[t].pc = "loading"
    /\ tasks' = [tasks EXCEPT
           ![t].pc = "request_error",
           ![t].sendResult = Some(Err("request_error",
               RequestErrorNew(tasks[t].buildResult[1].value.record, now, now, "body")))]
    /\ UNCHANGED <<pairFrame, netLog, dbLog>>

\* The content has loaded: the Exchange is made, handed to insert_exchange
\* and returned, without another suspension.
PairLoadOk(t) ==
    /\ tasks[t].pc = "loading"
    /\ LET exchange == ExchangeNew(tasks[t].buildResult[1].value.record,
                                   ResponseRecordOf(tasks[t].response[1]), now, now)
       IN /\ \E stored \in BOOLEAN :
                dbLog' = Append(dbLog, [exchange |-> exchange, ok |-> stored])
          /\ tasks' = [tasks EXCEPT ![t].pc = "exchange",
                                    ![t].sendResult = Some(Ok("exchange", exchange))]
    /\ UNCHANGED <<pairFrame, netLog>>

NextPair ==
    \/ \E t \in Tasks : PairBuild(t)
    \/ \E t \in Tasks : PairRender(t)
    \/ \E t \in Tasks : PairSendStart(t)
    \/ \E t \in Tasks : PairExecute(t)
    \/ \E t \in Tasks : PairLoadFail(t)
    \/ \E t \in Tasks : PairLoadOk(t)

SpecPair == InitPair /\ [][NextPair]_vars

-----------------------------------------------------------------------------
(* The StateCell of a ResponseBodyView under the calls of the view: draw,  *)
(* update and children, each run to its end before the next starts except  *)
(* that draw keeps its Ref while it draws the body.                        *)

InitCell ==
    /\ PipelineIdle
    /\ tasks = <<>>
    /\ trimPredicate = IsLineBreak
    /\ trimInput = <<>>
    /\ trimResults = <<>>
    /\ CellIdle
    /\ ViewIdle
    /\ PaneIdle
    /\ FileIdle

cellFrame == <<pipelineVars, trimVars, tasks, viewVars, paneVars, fileVars>>

\* ResponseBodyView::draw calls get_or_update with the id of the request of
\* its props, and draws the body through the Ref it gets.
DrawBegin ==
    /\ cellRefs = 0
    /\ \E key \in CellKeys :
         LET outcome == get_or_update(cell, cellRefs, key, cellInits + 1)
         IN /\ outcome.ran_init => cellInits < MaxInits
            /\ cell' = outcome.cell
            /\ cellInits' = cellInits + B(outcome.ran_init)
            /\ cellRefs' = cellRefs + B(~outcome.panicked)
            /\ cellUpdated' = TRUE
            /\ cellCall' = [op |-> "get_or_update", key |-> Some(key), refs |-> cellRefs,
                            before |-> cell, after |-> outcome.cell,
                            ran_init |-> outcome.ran_init,
                            panicked |-> outcome.panicked,
                            returned |-> outcome.returned]
    /\ UNCHANGED cellFrame

\* draw returns: its Ref is dropped.
DrawEnd ==
    /\ cellRefs = 1
    /\ cellRefs' = 0
    /\ UNCHANGED <<cellFrame, cell, cellInits, cellUpdated, cellCall>>

\* ResponseBodyView::update reads the state with get, and drops the Ref
\* before it returns.
UpdateGet ==
    /\ cellRefs = 0
    /\ cellCall' = [NoCall EXCEPT !.op = "get", !.before = cell, !.after = cell,
                                  !.returned = get(cell)]
    /\ UNCHANGED <<cellFrame, cell, cellRefs, cellInits, cellUpdated>>

\* get_key, likewise.
GetKey ==
    /\ cellRefs = 0
    /\ cellCall' = [NoCall EXCEPT !.op = "get_key", !.before = cell, !.after = cell,
                                  !.returned = get_key(cell)]
    /\ UNCHANGED <<cellFrame, cell, cellRefs, cellInits, cellUpdated>>

\* ResponseBodyView::children hands the body out of get_mut to the caller,
\* which may change its query.
Children ==
    /\ cellRefs = 0
    /\ \E q \in BodyQueries :
         LET after == IF get_mut(cell) = None THEN cell
                      ELSE Some([cell[1] EXCEPT !.value.body.query = q])
         IN /\ cell' = after
            /\ cellCall' = [NoCall EXCEPT !.op = "get_mut", !.before = cell,
                                          !.after = after, !.returned = get_mut(cell)]
    /\ UNCHANGED <<cellFrame, cellRefs, cellInits, cellUpdated>>

NextCell ==
    \/ DrawBegin
    \/ DrawEnd
    \/ UpdateGet
    \/ GetKey
    \/ Children

SpecCell == InitCell /\ [][NextCell]_vars

-----------------------------------------------------------------------------
(* The StateCell under a caller that keeps the Refs it is given and calls  *)
(* again through &self.  A call that panics unwinds the caller: nothing    *)
(* follows it.                                                             *)

\* get_or_update(&key, init) with whatever Refs are out.
CallGetOrUpdate ==
    /\ ~cellCall.panicked
    /\ cellRefs < MaxRefs
    /\ \E key \in CellKeys :
         LET outcome == get_or_update(cell, cellRefs, key, cellInits + 1)
         IN /\ outcome.ran_init => cellInits < MaxInits
            /\ cell' = outcome.cell
            /\ cellInits' = cellInits + B(outcome.ran_init)
            /\ cellRefs' = cellRefs + B(~outcome.panicked)
            /\ cellUpdated' = TRUE
            /\ cellCall' = [op |-> "get_or_update", key |-> Some(key), refs |-> cellRefs,
                            before |-> cell, after |-> outcome.cell,
                            ran_init |-> outcome.ran_init,
                            panicked |-> outcome.panicked,
                            returned |-> outcome.returned]
    /\ UNCHANGED cellFrame

\* get(): the Ref is kept if there is a value, and dropped by ok() if not.
CallGet ==
    /\ ~cellCall.panicked
    /\ cellRefs < MaxRefs
    /\ cellCall' = [NoCall EXCEPT !.op = "get", !.refs = cellRefs, !.before = cell,
                                  !.after = cell,
                                  !.panicked = ~borrow(cellRefs),
                                  !.returned = IF borrow(cellRefs) THEN get(cell)
                                               ELSE None]
    /\ cellRefs' = cellRefs + B(borrow(cellRefs) /\ get(cell) # None)
    /\ UNCHANGED <<cellFrame, cell, cellInits, cellUpdated>>

\* get_key(), likewise.
CallGetKey ==
    /\ ~cellCall.panicked
    /\ cellRefs < MaxRefs
    /\ cellCall' = [NoCall EXCEPT !.op = "get_key", !.refs = cellRefs, !.before = cell,
                                  !.after = cell,
                                  !.panicked = ~borrow(cellRefs),
                                  !.returned = IF borrow(cellRefs) THEN get_key(cell)
                                               ELSE None]
    /\ cellRefs' = cellRefs + B(borrow(cellRefs) /\ get_key(cell) # None)
    /\ UNCHANGED <<cellFrame, cell, cellInits, cellUpdated>>

\* The caller drops one of the Refs it holds.
DropRef ==
    /\ ~cellCall.panicked
    /\ cellRefs > 0
    /\ cellRefs' = cellRefs - 1
    /\ UNCHANGED <<cellFrame, cell, cellInits, cellUpdated, cellCall>>

NextRefs ==
    \/ CallGetOrUpdate
    \/ CallGet
    \/ CallGetKey
    \/ DropRef

SpecRefs == InitCell /\ [][NextRefs]_vars

-----------------------------------------------------------------------------
(* ResponseBodyView: draws with the props of the moment, and events, each  *)
(* handled to its end before the next.                                     *)

BodyMenuActions == {"EditCollection", "ViewBody", "CopyBody", "SaveBody"}

viewFrame == <<pipelineVars, trimVars, tasks, paneVars, fileVars>>

\* Mutant: a state once made is kept, whatever request the props name.
ViewDrawKeepsState ==
    /\ \E key \in CellKeys :
         LET outcome == get_or_update(cell, cellRefs,
                                      IF cell = None THEN key ELSE cell[1].key,
                                      cellInits + 1)
         IN /\ outcome.ran_init => cellInits < MaxInits
            /\ cell' = outcome.cell
            /\ cellInits' = cellInits + B(outcome.ran_init)
            /\ cellUpdated' = TRUE
            /\ cellCall' = [op |-> "get_or_update", key |-> Some(key), refs |-> cellRefs,
                            before |-> cell, after |-> outcome.cell,
                            ran_init |-> outcome.ran_init,
                            panicked |-> outcome.panicked,
                            returned |-> outcome.returned]
            /\ viewDrawn' = Some(key)
    /\ UNCHANGED <<viewFrame, cellRefs, viewModal, viewMessages>>

\* Draw for ResponseBodyView: get_or_update with the request id of the
\* props, the body drawn through the Ref, the Ref dropped on return.
ViewDraw ==
    /\ \E key \in CellKeys :
         LET outcome == get_or_update(cell, cellRefs, key, cellInits + 1)
         IN /\ outcome.ran_init => cellInits < MaxInits
            /\ cell' = outcome.cell
            /\ cellInits' = cellInits + B(outcome.ran_init)
            /\ cellUpdated' = TRUE
            /\ cellCall' = [op |-> "get_or_update", key |-> Some(key), refs |-> cellRefs,
                            before |-> cell, after |-> outcome.cell,
                            ran_init |-> outcome.ran_init,
                            panicked |-> outcome.panicked,
                            returned |-> outcome.returned]
            /\ viewDrawn' = Some(key)
    /\ UNCHANGED <<viewFrame, cellRefs, viewModal, viewMessages>>

\* update on Action::OpenActions: the actions modal is opened.
ViewOpenActions ==
    /\ ~viewModal
    /\ viewModal' = TRUE
    /\ UNCHANGED <<viewFrame, cellVars, viewDrawn, viewMessages>>

\* update on an action the modal has emitted.  Whether the body has a
\* visible text is the body's affair.
ViewMenuAction ==
    /\ viewModal
    /\ Len(viewMessages) < MaxMessages
    /\ viewModal' = FALSE
    /\ \E menu_action \in BodyMenuActions, visible \in BOOLEAN :
         viewMessages' =
            CASE menu_action = "EditCollection" ->
                    Append(viewMessages, [type |-> "CollectionEdit"])
              [] menu_action = "ViewBody" ->
                    IF get(cell) # None /\ visible
                    THEN Append(viewMessages, [type |-> "ViewText"])
                    ELSE viewMessages
              [] menu_action = "CopyBody" ->
                    IF get(cell) # None /\ visible
                    THEN Append(viewMessages, [type |-> "CopyText"])
                    ELSE viewMessages
              [] menu_action = "SaveBody" ->
                    IF get(cell) # None
                    THEN Append(viewMessages,
                                [type |-> "SaveResponseBody",
                                 request_id |-> get(cell)[1].request_id,
                                 data |-> get(cell)[1].body.query])
                    ELSE viewMessages
    /\ UNCHANGED <<viewFrame, cellVars, viewDrawn>>

\* children: the body is handed out of get_mut, and the child changes its
\* query.
ViewChildren ==
    /\ get_mut(cell) # None
    /\ \E q \in BodyQueries :
         /\ q # cell[1].value.body.query
         /\ cell' = Some([cell[1] EXCEPT !.value.body.query = q])
         /\ cellCall' = [NoCall EXCEPT !.op = "get_mut", !.before = cell,
                                       !.after = cell', !.returned = get_mut(cell)]
    /\ UNCHANGED <<viewFrame, cellRefs, cellInits, cellUpdated, viewVars>>

NextView ==
    \/ ViewDraw
    \/ ViewOpenActions
    \/ ViewMenuAction
    \/ ViewChildren

SpecView == InitCell /\ [][NextView]_vars

-----------------------------------------------------------------------------
(* ProfilePane and its ProfileListModal over the EventQueue, which hands   *)
(* out its events first in, first out.                                     *)

ProfileIds == {"p1", "p2"}
\* What event.action() yields for an input event: the two actions the pane
\* takes, one it does not, or none.
InputActions == {"LeftClick", "SelectProfileList", "OpenActions", "None"}

InputEvent(a) == [kind |-> "Input", action |-> a]
SelectProfile(profile_id) == [kind |-> "SelectProfile", id |-> profile_id]
CloseModal == [kind |-> "CloseModal"]
OpenModal == [kind |-> "OpenModal"]
HttpLoadRequest == [kind |-> "HttpLoadRequest"]

\* EventHandler for ProfilePane::update: what is selected after it, what it
\* pushes on the queue, and what it returns.
update(selected, event) ==
    IF event.kind = "Input" /\ event.action \in {"LeftClick", "SelectProfileList"}
    THEN [update |-> "Consumed", selected |-> selected, pushed |-> <<OpenModal>>]
    ELSE IF event.kind = "SelectProfile"
    THEN [update |-> "Consumed", selected |-> Some(event.id),
          pushed |-> <<HttpLoadRequest>>]
    ELSE [update |-> "Propagate", selected |-> selected, pushed |-> <<>>]

paneFrame == <<pipelineVars, trimVars, tasks, cellVars, viewVars, fileVars>>

\* ProfilePane::update is called with `event`, `rest` being what else waits
\* on the queue.
PaneUpdate(event, rest) ==
    LET outcome == update(selected_profile, event)
    IN /\ Len(rest) + Len(outcome.pushed) <= MaxQueue
       /\ selected_profile' = outcome.selected
       /\ eventQueue' = rest \o outcome.pushed
       /\ paneUpdate' = [event |-> event, update |-> outcome.update,
                         before |-> selected_profile, after |-> outcome.selected,
                         pushed |-> outcome.pushed]
       /\ UNCHANGED <<paneFrame, paneModal>>

\* An input event reaches the pane.
PaneInput == \E a \in InputActions : PaneUpdate(InputEvent(a), eventQueue)

\* The event at the head of the queue is one for the components: it reaches
\* the pane.
PaneQueued ==
    /\ eventQueue # <<>>
    /\ eventQueue[1].kind \notin {"OpenModal", "CloseModal"}
    /\ PaneUpdate(eventQueue[1], Tail(eventQueue))

\* The event at the head of the queue opens or closes the modal.
ModalQueued ==
    /\ eventQueue # <<>>
    /\ eventQueue[1].kind \in {"OpenModal", "CloseModal"}
    /\ paneModal' = (eventQueue[1].kind = "OpenModal")
    /\ eventQueue' = Tail(eventQueue)
    /\ UNCHANGED <<paneFrame, selected_profile, paneUpdate>>

\* Mutant: the callback event is pushed before the modal is closed.
ModalSubmitSelectFirst ==
    /\ paneModal
    /\ Len(eventQueue) + 2 <= MaxQueue
    /\ \E profile_id \in ProfileIds :
         eventQueue' = eventQueue \o <<SelectProfile(profile_id), CloseModal>>
    /\ UNCHANGED <<paneFrame, selected_profile, paneModal, paneUpdate>>

\* on_submit of the modal's list, on the profile the user submits.
ModalSubmit ==
    /\ paneModal
    /\ Len(eventQueue) + 2 <= MaxQueue
    /\ \E profile_id \in ProfileIds :
         eventQueue' = eventQueue \o <<CloseModal, SelectProfile(profile_id)>>
    /\ UNCHANGED <<paneFrame, selected_profile, paneModal, paneUpdate>>

NextPane ==
    \/ PaneInput
    \/ PaneQueued
    \/ ModalQueued
    \/ ModalSubmit

SpecPane == InitCell /\ [][NextPane]_vars

-----------------------------------------------------------------------------
(* build_file_from_lines on its own. *)

\* enum Line
Seperator == [kind |-> "Seperator", text |-> ""]
Name(text) == [kind |-> "Name", text |-> text]
Request(text) == [kind |-> "Request", text |-> text]
Lines == {Seperator, Name("n"), Request("a"), Request("b")}

\* JetbrainsRequest::default(); the request text is kept as the lines pushed
\* onto it, each of which push_line ends with "\r\n".
DefaultRequest == [name |-> None, request |-> <<>>]
is_empty(r) == r.request = <<>>
push_line(r, value) == [r EXCEPT !.request = Append(@, value)]
set_name(r, name) == [r EXCEPT !.name = Some(name)]

\* The loop of build_file_from_lines from line i on, with the sections and
\* the current request it has so far; what is returned are the sections.
RECURSIVE BuildFrom(_, _, _, _)
BuildFrom(lines, i, sections, current_request) ==
    IF i > Len(lines) THEN sections
    ELSE CASE lines[i].kind = "Seperator" ->
                 BuildFrom(lines, i + 1,
                           IF ~is_empty(current_request)
                           THEN Append(sections, current_request)
                           ELSE sections,
                           DefaultRequest)
           [] lines[i].kind = "Name" ->
                 BuildFrom(lines, i + 1, sections,
                           set_name(current_request, lines[i].text))
           [] lines[i].kind = "Request" ->
                 BuildFrom(lines, i + 1, sections,
                           push_line(current_request, lines[i].text))

build_file_from_lines(lines) == BuildFrom(lines, 1, <<>>, DefaultRequest)

InitFile ==
    /\ PipelineIdle
    /\ tasks = <<>>
    /\ trimPredicate = IsLineBreak
    /\ trimInput = <<>>
    /\ trimResults = <<>>
    /\ CellIdle
    /\ ViewIdle
    /\ PaneIdle
    /\ fileLines \in SeqsUpTo(Lines, MaxLines)
    /\ fileSections = None

CallBuildFile ==
    /\ fileSections = None
    /\ fileSections' = Some(build_file_from_lines(fileLines))
    /\ UNCHANGED <<pipelineVars, trimVars, tasks, cellVars, viewVars, paneVars, fileLines>>

NextFile == CallBuildFile

SpecFile == InitFile /\ [][NextFile]_vars

-----------------------------------------------------------------------------
(* Properties *)

Built == buildResult # None
BuildFailed == Built /\ ~buildResult[1].ok
TicketBuilt == Built /\ buildResult[1].kind = "ticket"
UrlBuilt == Built /\ buildResult[1].kind \in {"ticket", "url"}
BuildError == buildResult[1].value
\* The URL build put into the RequestRecord, or the URL build_url returned.
ResultUrl ==
    IF buildResult[1].kind = "ticket" THEN Ticket.record.url ELSE buildResult[1].value
Recipe == seed[1].recipe
Options == seed[1].options

\* The names of the recipe's query parameters and headers that are disabled.
DisabledQuery ==
    {Recipe.query[i].key : i \in 1..Len(Recipe.query)}
    \cap Options.disabled_query_parameters
DisabledHeaders ==
    {Recipe.headers[i].name : i \in 1..Len(Recipe.headers)}
    \cap Options.disabled_headers

CountKey(query, k) == Cardinality({i \in 1..Len(query) : query[i].key = k})
CountName(headers, n) == Cardinality({i \in 1..Len(headers) : headers[i].name = n})

\* No disabled query parameter was handed to the render contract.
DisabledQueryNotRendered ==
    seed # None =>
        \A i \in 1..Len(Recipe.query) :
            Recipe.query[i].key \in Options.disabled_query_parameters
                => Field("query", i) \notin rendered

\* No build error is the render error of a disabled query parameter.
DisabledQueryNeverFails ==
    BuildFailed =>
        ~(/\ BuildError.error.context = "Error rendering query parameter"
          /\ BuildError.error.name \in Options.disabled_query_parameters)

\* C1 as stated: the name of a disabled query parameter never appears in the
\* URL of the RequestRecord (nor in the URL build_url returns), its template
\* is never rendered, and its render error never fails the build.
C1_Original ==
    /\ UrlBuilt => \A k \in DisabledQuery : CountKey(ResultUrl.query, k) = 0
    /\ DisabledQueryNotRendered
    /\ DisabledQueryNeverFails

\* C1 as amended: a disabled query parameter adds no pair to the URL of the
\* RequestRecord (nor to the URL build_url returns): the URL holds a pair of
\* that name only as often as the rendered base URL itself does; its
\* template is never rendered, and its render error never fails the build.
C1_DisabledQueryExcluded ==
    /\ UrlBuilt =>
          \A k \in DisabledQuery :
              CountKey(ResultUrl.query, k) = CountKey(render_url(Recipe).query, k)
    /\ DisabledQueryNotRendered
    /\ DisabledQueryNeverFails

\* A build returned a ticket although a disabled parameter's template fails.
C1_Witness ==
    /\ pc = "ticket"
    /\ \E i \in 1..Len(Recipe.query) :
          /\ Recipe.query[i].key \in Options.disabled_query_parameters
          /\ ~Recipe.query[i].value.ok

\* No disabled header was handed to the render contract.
DisabledHeaderNotRendered ==
    seed # None =>
        \A i \in 1..Len(Recipe.headers) :
            Recipe.headers[i].name \in Options.disabled_headers
                => Field("header", i) \notin rendered

\* No build error is the render or encoding error of a disabled header.
DisabledHeaderNeverFails ==
    BuildFailed =>
        ~(/\ BuildError.error.context \in
                {"Error rendering header", "Error encoding header name",
                 "Error encoding value for header"}
          /\ BuildError.error.name \in Options.disabled_headers)

\* C2 as stated: the name of a disabled header never appears among the
\* headers of the RequestRecord, its template is never rendered, and its
\* render or encoding error never fails the build.
C2_Original ==
    /\ TicketBuilt =>
          \A h \in DisabledHeaders :
              CountName(Ticket.record.headers, HeaderNameOf(h)) = 0
    /\ DisabledHeaderNotRendered
    /\ DisabledHeaderNeverFails

\* C2 as amended: a disabled header adds no header to the RequestRecord: the
\* record holds a header of that name only as often as the enabled recipe
\* headers and the authentication (its Authorization header) supply one; its
\* template is never rendered, and its error never fails the build.
C2_DisabledHeaderExcluded ==
    /\ TicketBuilt =>
          \A h \in DisabledHeaders :
              CountName(Ticket.record.headers, HeaderNameOf(h)) =
                  Cardinality({i \in 1..Len(Recipe.headers) :
                      /\ Recipe.headers[i].name \notin Options.disabled_headers
                      /\ HeaderNameOf(Recipe.headers[i].name) = HeaderNameOf(h)})
                  + B(/\ HeaderNameOf(h) = "authorization"
                      /\ AppliedAuthentication(seed[1]) # None)
    /\ DisabledHeaderNotRendered
    /\ DisabledHeaderNeverFails

\* A build returned a ticket although a disabled header's template fails to
\* render or to encode.
C2_Witness ==
    /\ pc = "ticket"
    /\ \E i \in 1..Len(Recipe.headers) :
          /\ Recipe.headers[i].name \in Options.disabled_headers
          /\ RenderHeaderError(Recipe, i) # None

\* What a finished build and a finished send returned.
C3_Outcomes ==
    /\ (Built /\ op = "build") =>
          /\ buildResult[1].kind \in {"ticket", "build_error"}
          /\ buildResult[1].ok <=> buildResult[1].kind = "ticket"
          /\ pc = "build_error" <=> ~buildResult[1].ok
    /\ TicketBuilt =>
          /\ rendered = BuildFields(seed[1])
          /\ \A f \in BuildFields(seed[1]) : FieldError(Recipe, f) = None
          /\ BuildRequest(Recipe, render_url(Recipe), render_query(Recipe, Options),
                          render_headers(Recipe, Options),
                          AppliedAuthentication(seed[1]),
                          AppliedBody(seed[1])).error = None
    /\ sendResult # None =>
          /\ TicketBuilt
          /\ sendResult[1].kind \in {"exchange", "request_error"}
          /\ sendResult[1].ok <=> sendResult[1].kind = "exchange"
          /\ pc = sendResult[1].kind
    /\ pc \in {"exchange", "request_error"} => sendResult # None

Stays(positions) ==
    pc \in positions => /\ pc' = pc
                        /\ buildResult' = buildResult
                        /\ sendResult' = sendResult

\* C3 as stated: build ends in a Ticket or a RequestBuildError, send in an
\* Exchange or a RequestError; a Ticket needs all five facets and the request
\* construction to succeed, a RequestError a built request; and no transition
\* leaves any of the four outcomes.
C3_Original ==
    /\ []C3_Outcomes
    /\ [][Stays({"ticket", "build_error", "exchange", "request_error"})]_vars

\* C3 as amended: the same, but the outcomes no transition leaves are the
\* three RequestBuildError, Exchange and RequestError; a Ticket is left by
\* send, and by send alone.
C3_OutcomesTerminal ==
    /\ []C3_Outcomes
    /\ [][Stays({"build_error", "exchange", "request_error"})]_vars
    /\ [][(pc = "ticket" /\ pc' # "ticket") =>
              (pc' = "executing" /\ Len(netLog') = Len(netLog) + 1)]_vars

\* A send ended in a RequestError after the content of a response failed to
\* load.
C3_Witness ==
    /\ pc = "request_error"
    /\ sendResult[1].value.error = "body"

\* C4: a seed is consumed by at most one build and a ticket by at most one
\* send: one seed leads to at most one network dispatch and at most one
\* persisted Exchange.
C4_OneShot ==
    /\ [](Len(netLog) <= 1 /\ Len(dbLog) <= 1)
    /\ [][op' # op => (op = "none" /\ pc = "seed" /\ pc' # "seed")]_vars
    /\ [][netLog' # netLog => (pc = "ticket" /\ pc' # "ticket")]_vars

\* The one dispatch and the one insert of a seed have happened.
C4_Witness == Len(netLog) = 1 /\ Len(dbLog) = 1 /\ dbLog[1].ok

\* C5: the RequestRecord of the Ticket, the Exchange (its id and its
\* request's id), the record of a RequestError and the Exchange handed to
\* insert_exchange all carry the id of the seed.
C5_IdPreserved ==
    /\ TicketBuilt => Ticket.record.id = seed[1].id
    /\ local.exchange # None =>
          /\ local.exchange[1].id = seed[1].id
          /\ local.exchange[1].request.id = seed[1].id
    /\ sendResult # None =>
          IF sendResult[1].ok
          THEN /\ sendResult[1].value.id = seed[1].id
               /\ sendResult[1].value.request.id = seed[1].id
          ELSE sendResult[1].value.request.id = seed[1].id
    /\ \A i \in 1..Len(dbLog) :
          /\ dbLog[i].exchange.id = seed[1].id
          /\ dbLog[i].exchange.request.id = seed[1].id

\* An Exchange of a seed with another id than the fixture's was returned and
\* stored.
C5_Witness ==
    /\ pc = "exchange"
    /\ seed[1].id # DefaultRequestId
    /\ dbLog # <<>>

\* C6: every failed build yields a RequestBuildError with the seed's id, the
\* recipe's id and the context's selected profile, and no Ticket; whatever
\* fails (a render, the URL, a header name or value), the build fails; a URL
\* template rendering to "not a url" yields such an error.
C6_BuildErrorIdentity ==
    /\ BuildFailed =>
          /\ BuildError.id = seed[1].id
          /\ BuildError.recipe_id = Recipe.id
          /\ BuildError.profile_id = ctx[1].selected_profile
          /\ pc = "build_error"
          /\ netLog = <<>>
    /\ (Built /\ \E f \in Fields(op, seed[1]) : FieldError(Recipe, f) # None)
          => BuildFailed
    /\ (Built /\ op \in {"build", "build_url"} /\ Recipe.url.out = "not a url")
          => (BuildFailed /\ BuildError.recipe_id = Recipe.id)

\* A build failed on a URL that does not parse.
C6_Witness ==
    /\ pc = "build_error"
    /\ op = "build"
    /\ BuildError.error.context = "Invalid URL"

\* C7: build, build_url and build_body never hand a request to the network
\* client and never write to the database: both happen inside send only.
C7_NoIoBeforeSend ==
    /\ pc \in {"start", "seed", "building", "ticket", "build_error", "url", "body"}
          => (netLog = <<>> /\ dbLog = <<>>)
    /\ op \in {"build_url", "build_body"} => (netLog = <<>> /\ dbLog = <<>>)
    /\ netLog # <<>> => local.start_time # None
    /\ dbLog # <<>> => netLog # <<>>

\* build_url ended in a RequestBuildError.
C7_Witness ==
    /\ pc = "build_error"
    /\ op = "build_url"
    /\ netLog = <<>>

\* C8: a successful send returns the Exchange whether or not insert_exchange
\* succeeded: a storage failure makes no error of the result, changes no
\* field of the Exchange, and is not retried.
C8_StorageFailureSwallowed ==
    /\ Len(dbLog) <= 1
    /\ dbLog # <<>> => pc \in {"inserted", "exchange"}
    /\ (sendResult # None /\ ~sendResult[1].ok) => dbLog = <<>>
    /\ pc = "exchange" =>
          /\ sendResult[1].ok
          /\ sendResult[1].value =
                ExchangeNew(Ticket.record, ResponseRecordOf(local.response[1]),
                            local.start_time[1], local.end_time[1])

\* send returned an Exchange although insert_exchange failed.
C8_Witness ==
    /\ pc = "exchange"
    /\ ~dbLog[1].ok
    /\ sendResult[1].ok

\* C9: a successful send calls insert_exchange exactly once, with the
\* Exchange it returns, after the content has loaded and end_time was read,
\* and before it returns.
C9_InsertOnce ==
    /\ (sendResult # None /\ sendResult[1].ok) =>
          /\ Len(dbLog) = 1
          /\ dbLog[1].exchange = sendResult[1].value
    /\ pc = "inserted" => (Len(dbLog) = 1 /\ sendResult = None)
    /\ dbLog # <<>> =>
          /\ local.response # None
          /\ local.end_time # None
          /\ dbLog[1].exchange.end_time = local.end_time[1]
          /\ dbLog[1].exchange.response = ResponseRecordOf(local.response[1])

\* send returned the Exchange it had stored.
C9_Witness ==
    /\ pc = "exchange"
    /\ Len(dbLog) = 1
    /\ dbLog[1].ok
    /\ local.end_time[1] < now

\* C10: when the send fails, send returns a RequestError whose record is the
\* one build produced, with start_time and with the end_time read at the
\* failure.
C10_RequestErrorRecord ==
    /\ [](pc = "request_error" =>
            /\ ~sendResult[1].ok
            /\ sendResult[1].value.request = buildResult[1].value.record
            /\ local.start_time # None /\ local.end_time # None
            /\ sendResult[1].value.start_time = local.start_time[1]
            /\ sendResult[1].value.end_time = local.end_time[1])
    /\ [][(pc # "request_error" /\ pc' = "request_error") =>
            /\ sendResult'[1].value.end_time = now
            /\ sendResult'[1].value.start_time = local.start_time[1]
            /\ local'.response = local.response]_vars

\* Client::execute failed some time after send had started.
C10_Witness ==
    /\ pc = "request_error"
    /\ sendResult[1].value.error = "execute"
    /\ sendResult[1].value.start_time < sendResult[1].value.end_time

\* C11: every Exchange and every RequestError send makes has
\* start_time <= end_time.
C11_StartBeforeEnd ==
    /\ local.exchange # None =>
          local.exchange[1].start_time <= local.exchange[1].end_time
    /\ sendResult # None =>
          sendResult[1].value.start_time <= sendResult[1].value.end_time

\* C12: the Ticket is bound to the danger client exactly when the host of
\* its URL is, as it stands, a member of the configured hostnames; every
\* other Ticket is bound to the standard client, and send hands the request
\* to the client the Ticket is bound to.
C12_ExactHostRouting ==
    /\ TicketBuilt =>
          /\ Ticket.client \in {"client", "danger_client"}
          /\ Ticket.client = "danger_client"
                <=> /\ Ticket.record.url.host # None
                    /\ Ticket.record.url.host[1] \in engine.danger_hostnames
          /\ routed = Some(Ticket.client)
    /\ \A i \in 1..Len(netLog) : netLog[i].client = Ticket.client

\* A request to a configured host was sent through the danger client.
C12_Witness ==
    /\ netLog # <<>>
    /\ netLog[1].client = "danger_client"
    /\ netLog[1].request.url.host = Some("h2")

\* C13: whatever the configured hostnames, a URL without a host is routed to
\* the standard client.
C13_EmptyHostStandard ==
    (routed # None /\ render_url(Recipe).host = None) => routed[1] = "client"

RenderContexts ==
    {"Error rendering URL", "Invalid URL", "Error rendering query parameter",
     "Error rendering header", "Error encoding header name",
     "Error encoding value for header", "Error rendering username",
     "Error rendering password", "Error rendering bearer token",
     "Error rendering body"}

\* C14: build_url hands only the URL template and the templates of the
\* enabled query parameters to the render contract; it fails only on the
\* URL, an enabled query parameter or the construction of the request, so it
\* succeeds whatever the header, authentication and body templates do.
C14_BuildUrlIsolation ==
    op = "build_url" =>
        /\ rendered \subseteq
              RenderUrlFields(Recipe) \cup RenderQueryFields(Recipe, Options)
        /\ \A f \in rendered : f.facet \in {"url", "query"}
        /\ BuildFailed =>
              BuildError.error.context \in
                  {"Error rendering URL", "Invalid URL",
                   "Error rendering query parameter", "builder error"}
        /\ (/\ Built
            /\ RenderUrlError(Recipe) = None
            /\ render_url(Recipe).host # None
            /\ \A f \in RenderQueryFields(Recipe, Options) : FieldError(Recipe, f) = None)
              => pc = "url"

\* build_url returned a URL for a recipe with a header, an authentication
\* template or a body that fails.
C14_Witness ==
    /\ pc = "url"
    /\ \E f \in BuildFields(seed[1]) :
          f.facet \notin {"url", "query"} /\ FieldError(Recipe, f) # None

\* C15: build_body hands only the body template to the render contract; it
\* fails only when that template fails, whatever the URL, the query
\* parameters, the headers and the authentication do; for a recipe without a
\* body it renders nothing and returns no body.
C15_BuildBodyIsolation ==
    op = "build_body" =>
        /\ \A f \in rendered : f.facet = "body"
        /\ Built => (BuildFailed <=> (Recipe.body # None /\ ~Recipe.body[1].ok))
        /\ BuildFailed => BuildError.error.context = "Error rendering body"
        /\ (Built /\ Recipe.body = None) =>
              /\ pc = "body" /\ buildResult[1].ok /\ rendered = {}
              /\ Options.body_override = None => buildResult[1].value = None

\* build_body returned for a recipe without a body whose URL template fails.
C15_Witness ==
    /\ pc = "body"
    /\ Recipe.body = None
    /\ buildResult[1].value = None
    /\ Options.body_override = None
    /\ ~Recipe.url.ok

\* The fields of the build whose render has failed.
FailedRenders == {f \in rendered : FieldError(Recipe, f) # None}

\* C16: a build in which facet renders fail returns one RequestBuildError,
\* whose cause is the error of the render that failed first: every render
\* that finished before it succeeded, and what those yielded and the errors
\* of the renders still pending are not in the result.
C16_FirstErrorReported ==
    (BuildFailed /\ op = "build" /\ BuildError.error.context \in RenderContexts) =>
        /\ Cardinality(FailedRenders) = 1
        /\ \A f \in FailedRenders : BuildError.error = FieldError(Recipe, f)[1]
        /\ DOMAIN BuildError = {"error", "id", "recipe_id", "profile_id"}
        /\ sendResult = None

\* A build with two failing renders failed after another render succeeded.
C16_Witness ==
    /\ pc = "build_error"
    /\ op = "build"
    /\ Cardinality({f \in BuildFields(seed[1]) : FieldError(Recipe, f) # None}) >= 2
    /\ \E f \in rendered : FieldError(Recipe, f) = None

ExpectedAuthorization(a) ==
    [name |-> "authorization",
     value |-> IF a.kind = "basic"
               THEN <<66, 97, 115, 105, 99, 32>>
                    \o Base64(a.username \o <<58>>
                              \o (IF a.password = None THEN <<>> ELSE a.password[1]))
               ELSE <<66, 101, 97, 114, 101, 114, 32>> \o a.token]

BasicNoPassword ==
    /\ seed # None
    /\ Recipe.authentication # None
    /\ Recipe.authentication[1].kind = "basic"
    /\ Recipe.authentication[1].password = None

\* C20: for Basic authentication without a password no password is
\* rendered and no build fails on the password; the request is built with
\* the credentials `username:`, the rendered username and an empty password.
C20_BasicWithoutPassword ==
    BasicNoPassword =>
        /\ Field("password", 0) \notin rendered
        /\ BuildFailed => BuildError.error.context # "Error rendering password"
        /\ (/\ Built /\ op = "build"
            /\ \A f \in BuildFields(seed[1]) : FieldError(Recipe, f) = None
            /\ render_url(Recipe).host # None) => TicketBuilt
        /\ (TicketBuilt /\ Options.authentication_override = None) =>
              /\ render_authentication(Recipe)[1].password = None
              /\ Ticket.record.headers[Len(Ticket.record.headers)] =
                    ExpectedAuthorization(
                        [kind |-> "basic",
                         username |-> Recipe.authentication[1].username[1].out,
                         password |-> None])

\* A Ticket was built for Basic authentication without a password.
C20_Witness ==
    /\ pc = "ticket"
    /\ BasicNoPassword
    /\ Options.authentication_override = None

\* The place among the enabled entries of the i-th entry of a recipe's list.
Place(enabled, i) == Cardinality({j \in enabled : j <= i})

EnabledQuery ==
    {i \in 1..Len(Recipe.query) :
        Recipe.query[i].key \notin Options.disabled_query_parameters}
EnabledHeaders ==
    {i \in 1..Len(Recipe.headers) :
        Recipe.headers[i].name \notin Options.disabled_headers}

\* C21: the RequestRecord of a successful build has the recipe's method, the
\* rendered base URL followed by exactly the enabled query parameters, in
\* the recipe's order and with their rendered values, the rendered body of
\* the recipe (or none), the recipe's id and the context's selected profile.
C21_RecordContents ==
    TicketBuilt =>
        LET r == Ticket.record
            base == ParseUrl(Recipe.url.out).url
        IN /\ r.method = (IF Recipe.method = "Get" THEN "GET" ELSE "POST")
           /\ r.url.base = base.base
           /\ r.url.host = base.host
           /\ Len(r.url.query) = Len(base.query) + Cardinality(EnabledQuery)
           /\ SubSeq(r.url.query, 1, Len(base.query)) = base.query
           /\ \A i \in EnabledQuery :
                 r.url.query[Len(base.query) + Place(EnabledQuery, i)] =
                     [key |-> Recipe.query[i].key, value |-> Recipe.query[i].value.out]
           /\ Options.body_override = None =>
                 r.body = (IF Recipe.body = None THEN None
                           ELSE Some(Recipe.body[1].out))
           /\ r.recipe_id = Recipe.id
           /\ r.profile_id = ctx[1].selected_profile

\* A Ticket was built for a recipe with two enabled query parameters and a
\* body.
C21_Witness ==
    /\ pc = "ticket"
    /\ Cardinality(EnabledQuery) = 2
    /\ Recipe.body # None
    /\ Options.body_override = None

\* A rendered value without its leading and trailing line breaks.
EdgeTrimmed(bytes) ==
    LET keep == {i \in 1..Len(bytes) : bytes[i] \notin {LF, CR}}
    IN IF keep = {} THEN <<>> ELSE SubSeq(bytes, Min(keep), Max(keep))

\* C22: every header value encoded into a built request neither starts nor
\* ends with a line break, and is the rendered value less its leading and
\* trailing line breaks: every other byte is kept, in order.
C22_HeaderValuesTrimmed ==
    TicketBuilt =>
        /\ Ticket.request.headers = Ticket.record.headers
        /\ \A i \in EnabledHeaders :
              LET value == Ticket.record.headers[Place(EnabledHeaders, i)].value
              IN /\ value = EdgeTrimmed(Recipe.headers[i].value.out)
                 /\ value # <<>> =>
                       /\ value[1] \notin {LF, CR}
                       /\ value[Len(value)] \notin {LF, CR}

\* A Ticket was built from a header value rendered with a line break at
\* both ends.
C22_Witness ==
    /\ pc = "ticket"
    /\ \E i \in EnabledHeaders : Recipe.headers[i].value.out = <<LF, 97, CR>>

\* The places of the bytes of the input that do not match the predicate.
NonMatching == {i \in 1..Len(trimInput) : ~trimPredicate[trimInput[i]]}

\* C23: trim_bytes makes the empty vector of a vector whose bytes all match
\* the predicate.
C23_AllMatchingEmpty ==
    (trimResults # <<>> /\ NonMatching = {}) => trimResults[1] = <<>>

\* C24: of a vector with a byte that does not match, trim_bytes leaves
\* exactly the slice from the first such byte to the last one, and so
\* leaves a vector whose first and last bytes do not match as it is.
C24_TrimsToSlice ==
    (trimResults # <<>> /\ NonMatching # {}) =>
        /\ trimResults[1] = SubSeq(trimInput, Min(NonMatching), Max(NonMatching))
        /\ ({1, Len(trimInput)} \subseteq NonMatching) => trimResults[1] = trimInput

\* A vector was trimmed at its start and kept a matching byte inside.
C24_Witness ==
    /\ trimResults # <<>>
    /\ Len(trimInput) = 4
    /\ Len(trimResults[1]) = 3
    /\ trimPredicate[trimInput[1]]
    /\ trimPredicate[trimResults[1][2]]

\* C25: trimming a trimmed vector again with the same predicate changes
\* nothing.
C25_Idempotent ==
    Len(trimResults) >= 2 => trimResults[2] = trimResults[1]

\* A vector that the first trim had shortened was trimmed again.
C25_Witness ==
    /\ Len(trimResults) = 2
    /\ trimResults[1] # trimInput

\* C26: no failure is retried: a send hands its request to Client::execute
\* exactly once whatever its outcome, a build renders no template a second
\* time, and once an operation has failed nothing more is rendered, sent or
\* stored.
C26_NoRetry ==
    /\ [](Len(netLog) <= 1)
    /\ [](pc \in {"executing", "loading", "loaded", "inserted", "exchange",
                  "request_error"} => Len(netLog) = 1)
    /\ [][rendered' # rendered =>
            \E f \in Fields(op, seed[1]) \ rendered : rendered' = rendered \cup {f}]_vars
    /\ [][(pc \in {"build_error", "request_error"}) =>
            /\ pc' = pc
            /\ UNCHANGED <<rendered, buildResult, sendResult, netLog, dbLog>>]_vars

\* A send failed in Client::execute after one dispatch.
C26_Witness ==
    /\ pc = "request_error"
    /\ sendResult[1].value.error = "execute"
    /\ Len(netLog) = 1
    /\ rendered = BuildFields(seed[1])

\* C27: an abandoned build or send returns nothing and stores nothing; an
\* Exchange is in the database only when the send that made it is past its
\* last suspension point and returns that Exchange.
C27_AbandonLeavesNothing ==
    /\ [](pc = "abandoned" =>
            /\ sendResult = None
            /\ dbLog = <<>>
            /\ local.exchange = None
            /\ netLog = <<>> => buildResult = None)
    /\ [](dbLog # <<>> =>
            /\ pc \in {"inserted", "exchange"}
            /\ dbLog[1].exchange = local.exchange[1]
            /\ pc = "exchange" => sendResult = Some(Ok("exchange", dbLog[1].exchange)))
    /\ [][(pc = "inserted" /\ pc' # pc) =>
            (pc' = "exchange" /\ sendResult' = Some(Ok("exchange", dbLog[1].exchange)))]_vars
    /\ [][pc = "abandoned" =>
            (pc' = pc /\ UNCHANGED <<buildResult, sendResult, netLog, dbLog>>)]_vars

\* A send was abandoned while the content of the response was loading.
C27_Witness ==
    /\ pc = "abandoned"
    /\ local.response # None
    /\ netLog # <<>>

\* What a build of a seed returns when it runs alone: the error of one of
\* its failing renders, or what build makes of the rendered facets.
SoloBuildOutcomes(eng, s, profile_id) ==
    LET failing == {f \in BuildFields(s) : FieldError(s.recipe, f) # None}
    IN IF failing # {}
       THEN {Err("build_error",
                 RequestBuildErrorNew(FieldError(s.recipe, f)[1], s, profile_id)) :
                 f \in failing}
       ELSE {BuildJoined(eng, s, profile_id)}

\* What a send of a ticket returns when it runs alone.
SoloSendOutcomes(ticket) ==
    {Ok("exchange", ExchangeNew(ticket.record, ResponseRecordOf(r), now, now)) :
        r \in Responses}
    \cup {Err("request_error", RequestErrorNew(ticket.record, now, now, e)) :
             e \in {"execute", "body"}}

C29_GetOrUpdate ==
    cellCall.op = "get_or_update" =>
        LET stale == cellCall.before = None \/ cellCall.before[1].key # cellCall.key[1]
        IN /\ ~cellCall.panicked
           /\ cellCall.ran_init <=> stale
           /\ cellCall.after # None
           /\ cellCall.after[1].key = cellCall.key[1]
           /\ cellCall.returned = Some(cellCall.after[1].value)
           /\ cellRefs = 1 => cell = cellCall.after
           /\ ~stale => /\ cellCall.after = cellCall.before
                        /\ cellCall.returned = Some(cellCall.before[1].value)
           /\ stale => cellCall.after[1].value.body.created = cellInits

\* get_or_update has found its key in the cell, with a value changed since
\* init made it, after another key had been in the cell.
C29_Witness ==
    /\ cellCall.op = "get_or_update"
    /\ ~cellCall.ran_init
    /\ cellCall.returned[1].body.query = "q"
    /\ cellInits >= 2

\* C30: get, get_key and get_mut return None iff the cell is uninitialized;
\* the cell is uninitialized exactly until get_or_update is first called,
\* and no call makes it uninitialized again.
C30_NoneIffUninitialized ==
    /\ [](/\ cellCall.op \in {"get", "get_key", "get_mut"} =>
                (cellCall.returned = None <=> cellCall.before = None)
          /\ cell = None <=> ~cellUpdated)
    /\ [][cell # None => cell' # None]_vars

\* get has returned a value that get_mut's caller changed, and before that
\* the three have been called on the empty cell.
C30_Witness ==
    /\ cellCall.op = "get"
    /\ cellCall.returned # None
    /\ cellCall.returned[1].body.query = "q"

\* C31: start_time is the reading of the clock at the moment send starts to
\* run, however long the ticket has been held: it is read in the step in
\* which send starts, no request is dispatched before it is read, and it is
\* not changed afterwards.
C31_StartTimeAtSend ==
    /\ [](/\ Len(netLog) > 0 => local.start_time # None
          /\ pc \in {"start", "seed", "building", "ticket"} => local.start_time = None)
    /\ [][(pc = "ticket" /\ pc' = "executing") =>
             /\ local'.start_time = Some(now)
             /\ Len(netLog) = 0]_vars
    /\ [][(local.start_time # None) => local'.start_time = local.start_time]_vars

\* A ticket has been held while the clock moved, and then sent.
C31_Witness ==
    /\ pc = "executing"
    /\ local.start_time = Some(MaxTime)
    /\ Len(netLog) = 1

\* C32: the record and the request of a Ticket agree: the record's method,
\* URL with its query, headers with the authentication header, and body are
\* those of the request, and that request is the one send dispatches.
C32_RecordMatchesRequest ==
    TicketBuilt =>
        /\ Ticket.record.method = Ticket.request.method
        /\ Ticket.record.url = Ticket.request.url
        /\ Ticket.record.headers = Ticket.request.headers
        /\ Ticket.record.body = Ticket.request.body
        /\ \A i \in 1..Len(netLog) :
              /\ netLog[i].request.method = Ticket.record.method
              /\ netLog[i].request.url = Ticket.record.url
              /\ netLog[i].request.headers = Ticket.record.headers
              /\ netLog[i].request.body = Ticket.record.body

\* A request with a query, an authentication header and a body has been
\* dispatched.
C32_Witness ==
    /\ TicketBuilt
    /\ Len(netLog) = 1
    /\ netLog[1].request.url.query # <<>>
    /\ \E i \in 1..Len(netLog[1].request.headers) :
          netLog[1].request.headers[i].name = "authorization"
    /\ netLog[1].request.body # None

\* The enabled headers whose value has rendered and which cannot be encoded:
\* the name is no header name, or the value less its leading and trailing
\* line breaks holds a byte no header value may hold.
UnencodableHeaders ==
    {i \in EnabledHeaders :
        /\ Recipe.headers[i].value.ok
        /\ \/ ~HeaderNameOk(Recipe.headers[i].name)
           \/ \E k \in 1..Len(EdgeTrimmed(Recipe.headers[i].value.out)) :
                 LET c == EdgeTrimmed(Recipe.headers[i].value.out)[k]
                 IN c < 32 /\ c # 9}

\* C33: a build of a recipe with a header that cannot be encoded returns a
\* RequestBuildError and makes no Ticket; nothing is sent.
C33_UnencodableHeaderFails ==
    (seed # None /\ op = "build" /\ UnencodableHeaders # {}) =>
        /\ ~TicketBuilt
        /\ Built => BuildFailed /\ pc = "build_error"
        /\ netLog = <<>>

\* A build in which every template rendered has failed on a header value
\* with a line break inside it.
C33_Witness ==
    /\ BuildFailed
    /\ op = "build"
    /\ BuildError.error.context = "Error encoding value for header"
    /\ \E i \in UnencodableHeaders : Recipe.headers[i].value.out = <<97, LF, 97>>
    /\ \A f \in BuildFields(seed[1]) : FieldTemplate(Recipe, f).ok

\* The description a failed render of a field is to carry: the facet, and
\* for a query parameter or a header the name of the field.
RenderDescription(f) ==
    CASE f.facet = "url" -> Cause("Error rendering URL", "")
      [] f.facet = "query" ->
            Cause("Error rendering query parameter", Recipe.query[f.idx].key)
      [] f.facet = "header" -> Cause("Error rendering header", Recipe.headers[f.idx].name)
      [] f.facet = "username" -> Cause("Error rendering username", "")
      [] f.facet = "password" -> Cause("Error rendering password", "")
      [] f.facet = "token" -> Cause("Error rendering bearer token", "")
      [] f.facet = "body" -> Cause("Error rendering body", "")

\* The renders handed out whose template failed to render.
FailedTemplates == {f \in rendered : ~FieldTemplate(Recipe, f).ok}

\* C34: the cause of a RequestBuildError that comes of a template failing
\* to render is the description of the facet and field of that template,
\* and of no other facet or field of the recipe.
C34_CauseNamesField ==
    (BuildFailed /\ FailedTemplates # {}) =>
        \A f \in FailedTemplates :
            /\ BuildError.error = RenderDescription(f)
            /\ \A g \in Fields(op, seed[1]) :
                  RenderDescription(g) # RenderDescription(f) =>
                      BuildError.error # RenderDescription(g)

\* A build of a recipe that has headers failed on the password, after the
\* username had rendered.
C34_Witness ==
    /\ BuildFailed
    /\ \E f \in FailedTemplates :
          /\ f.facet = "password"
          /\ \E g \in rendered : g.facet = "username"
    /\ Len(Recipe.headers) > 0

\* C35: a send that fails, in execute or in the load of the response,
\* returns a RequestError without a call of insert_exchange: the database is
\* handed an Exchange only by a send that returns Ok with it.
C35_FailedSendStoresNothing ==
    /\ [](/\ (sendResult # None /\ ~sendResult[1].ok) =>
                /\ sendResult[1].kind = "request_error"
                /\ sendResult[1].value.error \in {"execute", "body"}
                /\ dbLog = <<>>
          /\ dbLog # <<>> =>
                /\ pc \in {"inserted", "exchange"}
                /\ sendResult \in {None, Some(Ok("exchange", dbLog[1].exchange))}
                /\ pc = "exchange" => sendResult # None)
    /\ [][(pc \in {"executing", "loading"} /\ pc' = "request_error") =>
             /\ dbLog' = dbLog
             /\ sendResult' # None]_vars

\* A response arrived and its content failed to load.
C35_Witness ==
    /\ pc = "request_error"
    /\ local.response # None
    /\ sendResult[1].value.error = "body"
    /\ Len(netLog) = 1

\* C36: get_or_update panics iff a Ref into the cell is alive when it is
\* called, whether or not the key it is given is the stored one, and then
\* leaves the cell as it was without running init; get and get_key do not
\* panic, however many Refs are alive.
C36_ExclusiveBorrow ==
    /\ cellCall.op = "get_or_update" =>
          /\ cellCall.panicked <=> cellCall.refs > 0
          /\ cellCall.panicked =>
                /\ cellCall.after = cellCall.before
                /\ cell = cellCall.before
                /\ ~cellCall.ran_init
                /\ cellCall.returned = None
    /\ cellCall.op \in {"get", "get_key"} => ~cellCall.panicked

\* get_or_update has panicked on the key the cell holds, with a Ref alive.
C36_Witness ==
    /\ cellCall.op = "get_or_update"
    /\ cellCall.panicked
    /\ cellCall.before # None
    /\ cellCall.before[1].key = cellCall.key[1]
    /\ cellRefs >= 1

\* C37: the body state of a ResponseBodyView is keyed by request id: a
\* SaveResponseBody message carries the request id of the props drawn last,
\* the state is made anew exactly by a draw whose props name another request
\* than the last, and before the first draw only EditCollection sends a
\* message.
C37_KeyedByRequest ==
    /\ [](/\ cell = None <=> viewDrawn = None
          /\ cell # None =>
                /\ cell[1].key = viewDrawn[1]
                /\ cell[1].value.request_id = viewDrawn[1])
    /\ [][viewMessages' # viewMessages =>
             LET m == viewMessages'[Len(viewMessages')]
             IN /\ viewMessages' = Append(viewMessages, m)
                /\ m.type = "SaveResponseBody" =>
                      viewDrawn # None /\ m.request_id = viewDrawn[1]
                /\ viewDrawn = None => m.type = "CollectionEdit"]_vars
    /\ [][/\ cellInits' \in {cellInits, cellInits + 1}
          /\ cellInits' = cellInits + 1 <=> viewDrawn' # viewDrawn
          /\ cellInits' = cellInits + 1 =>
                cell' = Some([key |-> viewDrawn'[1],
                              value |-> InitState(viewDrawn'[1], cellInits')])]_vars

\* The body of a second request was drawn after the first, its query
\* changed, and a path asked for to save it.
C37_Witness ==
    /\ cellInits = 2
    /\ Len(viewMessages) = 1
    /\ viewMessages[1].type = "SaveResponseBody"
    /\ viewMessages[1].request_id = "req2"
    /\ viewMessages[1].data = "q"

SelectProfileCount(queue) ==
    Cardinality({i \in 1..Len(queue) : queue[i].kind = "SelectProfile"})

\* C38: a submit in the modal puts CloseModal on the queue and SelectProfile
\* right behind it; ProfilePane::update on SelectProfile(id) selects id and
\* pushes HttpLoadRequest; on an event that is neither LeftClick or
\* SelectProfileList nor SelectProfile it returns Propagate and leaves the
\* selected profile and the queue alone.
C38_SubmitThenSelect ==
    /\ [][SelectProfileCount(eventQueue') > SelectProfileCount(eventQueue) =>
             \E profile_id \in ProfileIds :
                eventQueue' = eventQueue \o <<CloseModal, SelectProfile(profile_id)>>]_vars
    /\ [](/\ paneUpdate.event.kind = "SelectProfile" =>
                /\ paneUpdate.after = Some(paneUpdate.event.id)
                /\ paneUpdate.pushed = <<HttpLoadRequest>>
                /\ paneUpdate.update = "Consumed"
          /\ (\/ paneUpdate.event.kind \in {"HttpLoadRequest", "OpenModal", "CloseModal"}
              \/ /\ paneUpdate.event.kind = "Input"
                 /\ paneUpdate.event.action \notin {"LeftClick", "SelectProfileList"}) =>
                /\ paneUpdate.update = "Propagate"
                /\ paneUpdate.after = paneUpdate.before
                /\ paneUpdate.pushed = <<>>)
    /\ [][paneUpdate' # paneUpdate =>
             /\ paneUpdate'.before = selected_profile
             /\ selected_profile' = paneUpdate'.after
             /\ Len(eventQueue') >= Len(paneUpdate'.pushed)
             /\ SubSeq(eventQueue', Len(eventQueue') - Len(paneUpdate'.pushed) + 1,
                       Len(eventQueue')) = paneUpdate'.pushed]_vars
    /\ [][selected_profile' # selected_profile =>
             /\ paneUpdate'.event.kind = "SelectProfile"
             /\ selected_profile' = Some(paneUpdate'.event.id)]_vars

\* The pane has handled the SelectProfile of a second submit: the modal is
\* closed, another profile is selected and HttpLoadRequest waits.
C38_Witness ==
    /\ paneUpdate.event = SelectProfile("p2")
    /\ paneUpdate.before = Some("p1")
    /\ selected_profile = Some("p2")
    /\ ~paneModal
    /\ eventQueue = <<HttpLoadRequest>>

\* The request lines of the input from line i up to the next separator.
RECURSIVE GroupFrom(_, _)
GroupFrom(lines, i) ==
    IF i > Len(lines) \/ lines[i].kind = "Seperator" THEN <<>>
    ELSE IF lines[i].kind = "Request" THEN <<lines[i].text>> \o GroupFrom(lines, i + 1)
    ELSE GroupFrom(lines, i + 1)

\* Where the groups of the input start: at its first line and after every
\* separator; those with a request line, in order.
GroupStarts ==
    {i \in 1..(Len(fileLines) + 1) :
        /\ i = 1 \/ fileLines[i - 1].kind = "Seperator"
        /\ GroupFrom(fileLines, i) # <<>>}

\* C39: the sections returned are the non-empty groups of request lines of
\* the input, in order, the group after the last separator included.
C39_EveryGroupASection ==
    fileSections # None =>
        /\ Len(fileSections[1]) = Cardinality(GroupStarts)
        /\ \A i \in GroupStarts :
              fileSections[1][Place(GroupStarts, i)].request = GroupFrom(fileLines, i)

====
